\* Two TryInit of up to four options each, and registrations at any time.
CONSTANTS
    h1 = h1  r1 = r1  A = A
    Types <- TwoTypes
    Names <- OneName
    Confs <- SomeConfs
    Texts <- SomeTexts
    ConfigMaps <- SomeMaps
    Handlers <- OneHandler
    Private <- OnePrivate
    DefaultReg = DefaultReg
    Nil = Nil
    MaxOptions = 4
    MaxInits = 2
SPECIFICATION Spec
INVARIANTS
    TypeOK
    TablesFitType
    HandlersAsMeant
    ExplicitWins
