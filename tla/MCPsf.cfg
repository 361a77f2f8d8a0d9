SPECIFICATION MCSpec
CONSTANTS
  LiczbaWezlow = 4
  LiczbaBlokowDanych = 3
  PSF_MAX_BLOKOW_W_WEZLE = 2
  PSF_ROZMIAR_BLOKU = 2
  WpisowNaBlok = 2
  MAKS_BRUDNYCH_BLOKOW = 4
  Nazwy = {a, b}
  Dlugosci = {1, 3}
  Dane = {"x"}
  MaksGlebokosc = 2
  MaksOperacji = 4
  MaksStartow = 2
  MaksBledow = 1
  KazdaAwaria = FALSE
  PSF_MAKS_GLEBOKOSC_KOPII = 2
INVARIANTS StrukturaSpojna ZmianySaOznaczone ZapisaneToRam
PROPERTY ImplementujeDrzewo
CHECK_DEADLOCK FALSE
SYMMETRY Symetria
