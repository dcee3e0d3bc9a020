SPECIFICATION Spec
CONSTANTS
  Slots = 10
  FatEntries = 4
  Heap = 3
  Names <- MCNames
  Texts <- MCTexts
  Fills = {11}
INVARIANTS NoCrossLink SizeFits
 
