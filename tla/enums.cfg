\* The names of short enums with values in every notation and of longer ones with gaps; parameters from files.
SPECIFICATION ParametersSpec
CONSTANTS
    Codes <- MCCodes
    Letters <- MCLetters
    Declarations <- MCDeclarations
    ConstantNames <- MCConstantNames
    ConstantValue <- MCConstantValue
    ParameterTypes <- MCParameterTypes
    Files <- MCFiles
INVARIANTS ParsedAsCompiled BackAndForth FirstOfEqualKeys ConfigReadBack ParametersTaken
CHECK_DEADLOCK FALSE
