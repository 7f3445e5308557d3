\* Bursts of three shapes at every third bit of two files, and every length they can be cut to.
CONSTANTS
    Pictures <- TwoPictures
    Damages <- SomeDamages
    Step = 3
SPECIFICATION PngSpec
CHECK_DEADLOCK FALSE
INVARIANTS
    Divides
    DataChecked
