CONSTANTS
  LiczbaWarstw = 2
  Szerokosc = 7
  Pozycje <- MojePozycje
  Szerokosci = {1, 2}
  SKLADACZ_MAKS_DIRTY_RECT = 2
  MAKS_PAMIEC_WARSTW = 3
  MaksOperacji = 4
  LiczbaOkien = 3
  Menedzer = 1
  Punkty = {1, 2}
  Obszar <- MojObszar
  PoczatkoweZ <- MojeZ
  MAKS_Z = 3
  PIERWSZE_Z = 1
SPECIFICATION MCSpec
INVARIANTS
  EkranAktualny
  PamiecWarstw
  AdresatZgodny
  NacisniecieTrafia
CHECK_DEADLOCK FALSE
