SPECIFICATION Spec
CONSTANTS
    Items <- MCItems
    ListType = "list.t"
    RuneType = "rune.t"
    RegexType = "regex.t"
    RegexClassType = "regex.class.t"
    Programs <- MCPrograms
    StackCapacity = 7
    GroupCapacity = 7
INVARIANTS
    FindsItsOwn
    LoadedOnce
PROPERTIES
    GroupsInOrder
