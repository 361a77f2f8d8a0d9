CONSTANTS
  ROZMIAR_STRONY = 4
  MAX_RAMEK = 8
  MAX_RAMEK_ALOKOWALNYCH = 7
  NISKIE_RAMKI = 1
  Mapy <- MojeMapy
  Rezerwacje <- MojeRezerwacje
  MAKS_CIAG = 3
  WYROWNANIE = 2
  NAGLOWEK = 4
  MINIMALNY_BLOK_UZYTKOWY = 2
  UINT64_MAX = 127
  Obszary <- MojeObszary
  Rozmiary <- MojeRozmiary
  Wskazniki <- MojeWskazniki
  Wpisow = 6
  Poziomy = 3
  RamkiPmm <- MojeRamki
  BAZA_STERTY_JADRA = 108
  ROZMIAR_STERTY_JADRA = 4
  Pidy = {1, 2}
  Obrazy <- MojeObrazy
  BAZA_STOSU_USER = 180
  LICZBA_STRON_STOSU_USER = 2
  BAZA_STERTY_USER = 40
  KONIEC_STERTY_USER = 44
  MAX_ALOKACJA_STERTY_NA_BWS = 3
  ROZMIAR_BUFORA = 6
  Znaki <- MojeZnaki
  ZnakiUsb = {98}
  Sprzet <- MojSprzet
  Klawisze <- MojeKlawisze
  MAKS_TRZYMANYCH = 4
  Sektory = {0, 1}
  Dane = {"x", "y"}
  MaksLimitow = 2
  E1000_NUM_TX_DESC = 3
  E1000_NUM_RX_DESC = 3
  RamkiSieci = {"a", "b", "zla"}
  Zle = {"zla"}
  ROZMIAR = 4
  Typy <- MojeTypy
  DaneZdarzen = {1, 2}
SPECIFICATION MCSpec
INVARIANTS
  RamkiToRam
  KazdaRamkaRaz
  OdmowaTylkoBezRamek
  PetlaZnajdujePierwszyCiag
  ListaSpojna
  KazdyBlokMaWlasciciela
  OdmowaTylkoBezMiejsca
  RamkiMajaJednegoWlasciciela
  PrzestrzenZgodna
  BuforJestKolejka
  ZnakiWCalosci
  DekoderWStepie
  ZnakWedlugUkladu
  DyskZgodny
  RingiToKolejki
  JedenNaOdcinek
PROPERTIES
  HistoriaNiezmienna
  FifoKrawedzi
