CONSTANTS
    H = 16
    XLEN = 8
    Rs2Field = 10
    DArith <- MCDArith
    SArith <- MCSArith
    NaN <- DNaN
    Number <- MCNumber
    DoubleOf <- MCDoubleOf
    SingleOf <- MCSingleOf
    Widen <- MCWiden
    Narrow <- MCNarrow
    Trunc <- MCTrunc
    RoundTo <- MCRoundTo
SPECIFICATION Spec
INVARIANTS
    MulhuIsUpperHalf SignedUpperHalves
    DivisionLaw RemainderBounded WordLaw DivisionsKeepWords
    WordFormsKeepWords CarryRecovered BranchesConsistent ShiftsExtend
    LogicAgrees SinglesAreHalves WordsComeBack ComparisonsAgree
