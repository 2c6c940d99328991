CONSTANTS
  Modes = {"import"}
  Outcomes = {"added", "refused"}
  Foreign = {"same"}
  Removable = {FALSE}
  Meddling = "reads"
  Confirms = {TRUE}
  MaxMeddle = 1
SPECIFICATION Spec
INVARIANT ForeignUntouched
