SPECIFICATION Spec
CONSTANTS
    Main = Main
    Aux = Aux
    TabStop = 2
    U16 = 32
    Glyphs = {" ", "a"}
    Space = " "
    U32 = 6
    Coordinates = {0, 5}
    Consoles <- MainAndAux
    Width <- TwoWidths
    Height <- TwoHeights
    Hues = {0}
    Black = 0
    LightGrey = 0
INVARIANTS CursorOnScreen WritesOnScreen LoopsScroll
PROPERTIES HwFollows IsTerminal
CHECK_DEADLOCK FALSE
