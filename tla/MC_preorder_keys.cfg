CONSTANTS
  Modes = {"import", "form", "cancel"}
  Outcomes = {"added", "refused", "other"}
  Foreign = {"different"}
  Removable = {TRUE, FALSE}
  Meddling = "reads"
  Confirms = {TRUE, FALSE}
  MaxMeddle = 3
SPECIFICATION Spec
INVARIANT ForeignUntouched
