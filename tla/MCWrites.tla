------------------------------ MODULE MCWrites ------------------------------
(* Writes that fail or are cut short: the health variables in NVRAM, and the  *)
(* FAT volume behind its cache.  "place" names the one that changes; the      *)
(* other rests.                                                               *)
EXTENDS BootHealth, EspWriter

CONSTANTS g1, g2

VARIABLE place

TwoIds == {g1, g2}
StateAndGenId == {"state", "genid"}

MCPayloads == {<<"a">>, <<"b", "a">>}

\* A full read asks for more chunks than MaxLen.
FullRead == {<<0, 4>>}

NvramRests ==
  Init /\ genid = NoGenId

VolumeRests ==
  EspInit /\ \A p \in Paths : disk[p] = NoFile

WritesInit ==
  \/ place = "nvram" /\ Init /\ VolumeRests
  \/ place = "volume" /\ EspInit /\ NvramRests

WritesNext ==
  \/ place = "nvram" /\ Next /\ UNCHANGED <<espVars, place>>
  \/ place = "volume" /\ EspNext /\ UNCHANGED <<vars, place>>

WritesSpec ==
  /\ WritesInit /\ [][WritesNext]_<<vars, espVars, place>>
  /\ SF_vars(place = "nvram" /\ CheckCrashLoop /\ UNCHANGED <<espVars, place>>)
=============================================================================
