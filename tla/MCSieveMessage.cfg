CONSTANT Source <- MCSource
CONSTANT Mime <- MCMime
CONSTANT Names = {"x", "y", "Received"}
CONSTANT Values = {"a"}
CONSTANT Substitutes = {2, 3}
CONSTANT NoAdd = {"Received"}
CONSTANT NoDelete = {"y"}
CONSTANT ReadUpTo = {0, 1, 3, 5}
CONSTANT MaxSteps = 4
CONSTANT Patterns = {{"a"}}
SPECIFICATION Spec
CHECK_DEADLOCK FALSE
INVARIANT MailsSound
INVARIANT PartsFound
PROPERTY EditsTheList
