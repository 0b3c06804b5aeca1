\* Two CPUs that print to a screen of two lines of two characters.  One
\* stream is enough: a color is only carried along.
SPECIFICATION Spec
CONSTANTS
    Cpus = {c1, c2}
    NoCpu = NoCpu
    Width = 2
    Height = 2
    Colors = {"gray"}
    Strings <- AllStrings
    MaxLines = 4
SYMMETRY Symmetric
CHECK_DEADLOCK FALSE
INVARIANT ScreenIsWindow
