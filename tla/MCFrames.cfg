CONSTANTS
    Capacity = 8
    Lengths = {0, 1, 5, 7, 125, 126, 127, 300, 65534, 65535, 65536, 65537, 1073741824, 1073741825}
    Sizes = {1, 2, 3, 6, 7, 127, 128, 129, 130, 131, 132, 133, 134, 135, 65538, 65539, 65540, 65542,
             65543, 65544, 65545, 65546, 65547, 65549, 65550, 65551}
SPECIFICATION Spec
INVARIANTS TypeOK HeadRoundTrip ForeignVerdict NeverOverreads SizedFits UnmaskedByPosition EvenMaskedByPosition
