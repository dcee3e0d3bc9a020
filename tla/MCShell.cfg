SPECIFICATION FairSpec
CONSTANTS
  Names = {"dev", "usb", "d"}
  Mountable = {"usb"}
  MaxArg = 2
  MaxPath = 1
  MaxComps = 2
  CatBuf = 3
  DumpBuf = 2
  FillBuf = 4
  FileSizes = {6, 7}
  Numbers = {0, 5, 9}
INVARIANTS RelativeNormalised PwdLeadsBack
PROPERTY CommandEnds
