CONSTANTS
  MAKS_PROCESOW = 4
  Przestrzenie = {a1, a2, a3}
  Stosy = {s1, s2, s3}
  PML4_JADRA = a0
  STOS_JADRA = s0
  Sciezki = {prog1, prog2}
  BRAK = brak
  MAKS_ZDARZEN = 1
  MAKS_BAJTOW = 1
  AWARIE_CR3 = TRUE
  USB = TRUE
SYMMETRY Symetria
SPECIFICATION Spec
INVARIANTS
  ZgodnoscKontekstu
  ZasobyMajaJednegoWlasciciela
  JednaInstancja
  RezerwacjaMaWlasciciela
  BezZgubionegoZdarzenia
  BezZgubionegoKlawisza
PROPERTIES
  NieZwalniaUzywanych
