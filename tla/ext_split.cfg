\* Fragments with each allowed order of headers in front of the fragment
\* header, headers of 8 and 16 octets, a reserved byte of 0 or 255 (the
\* largest value the byte holds), and 8 or 64 data bytes.
CONSTANTS
  ExtLens  = {0, 1}
  Reserved = {0, 255}
  DataLens = {8, 64}
SPECIFICATION Spec
INVARIANT FragmentSplitCorrect
