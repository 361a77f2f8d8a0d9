CONSTANTS
  Wpisow = 6
  Poziomy = 3
  RamkiPmm <- MojeRamki
  BAZA_STERTY_JADRA = 108
  ROZMIAR_STERTY_JADRA = 4
  Pidy = {1, 2}
  Obrazy <- MojeObrazy
  BAZA_STOSU_USER = 180
  LICZBA_STRON_STOSU_USER = 2
  BAZA_STERTY_USER = 40
  KONIEC_STERTY_USER = 44
  MAX_ALOKACJA_STERTY_NA_BWS = 3
SPECIFICATION Spec
INVARIANTS
  PrzydzielonaJestZmapowana
