CONSTANTS
  LiczbaOkien = 2
  Menedzer = 1
  Punkty = {1, 2}
  Obszar <- MojObszar
  PoczatkoweZ <- MojeZ
  MAKS_Z = 3
  PIERWSZE_Z = 1
SPECIFICATION UsbSpec
INVARIANT FocusIAdresatTenSam
CHECK_DEADLOCK FALSE
