SPECIFICATION ProtoSpec
CONSTANTS
    Words <- OneWord
    Turns <- NoTurns
    Handed <- Totals
INVARIANTS TotalPosted
