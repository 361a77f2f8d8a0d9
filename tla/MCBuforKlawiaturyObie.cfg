CONSTANTS
  ROZMIAR_BUFORA = 5
  Znaki <- MojeZnaki
  ZnakiUsb = {98}
  Sprzet <- ObieKlawiatury
SPECIFICATION BuforSpec
INVARIANT BuforJestKolejka
