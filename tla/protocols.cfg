SPECIFICATION ProtoSpec
CONSTANTS
    Words <- MCWords
    Turns <- MCTurns
    Handed <- MCHanded
INVARIANTS ProtoTypeOK DialObeyed PostsMeant RefreshCarries OthersShowNothing DamageHarmless
