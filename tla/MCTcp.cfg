CONSTANTS
  ModSeq = 8
  IsnKlienta = 6
  IsnSerwera = 6
  DlugoscOdpowiedzi = 3
  Mss = 2
  TCP_BUFOR_GNIAZDA = 2
  RozmiaryHttp = {2, 3}
  MaksPolaczen = 2
  MaksWSieci = 1
  Tryby = {TRUE, FALSE}
SPECIFICATION FairSpec
INVARIANTS
  NicNiePrzepada
  HttpSukcesToCalosc
PROPERTIES
  ImplementujeStrumien
  OdpowiedzDociera
CHECK_DEADLOCK FALSE
