SPECIFICATION Spec
CONSTANTS
    Width = 3
    Sizes = {2, 3}
    Prescalers = {0, 1}
    Modes <- Mode1
INVARIANT ReturnsServed
