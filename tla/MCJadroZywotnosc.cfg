CONSTANTS
  MAKS_PROCESOW = 3
  Przestrzenie = {a1, a2}
  Stosy = {s1, s2}
  PML4_JADRA = a0
  STOS_JADRA = s0
  Sciezki = {prog1, prog2}
  BRAK = brak
  MAKS_ZDARZEN = 1
  MAKS_BAJTOW = 1
  AWARIE_CR3 = FALSE
  USB = FALSE
SPECIFICATION FairSpec
INVARIANT GotowyMozeBycWybrany
PROPERTIES
  GotowyDostajeProcesor
  SlotWracaDoPuli
