SPECIFICATION MCSpec
CONSTANTS
    Colour <- MCColour
    N = 3
    Drawn <- MCDrawn
    PowerUp <- Noise
INVARIANTS PinsInv ReadsRight EachPointOnce
PROPERTIES ImplementsLeds
