-------------------------- MODULE EepromEspConstants --------------------------
(* The constants of EepromEsp and what is assumed of them.                  *)
EXTENDS Integers, Sequences

CONSTANTS
    Values, Blank,  \* values of a byte; Blank = 0xFF, erased EEPROM
    NoFile,         \* there is no file
    Sizes,          \* sizes begin() is called with
    Sector, Word,   \* ESP8266: 4096 and 4, scaled down
    MaxLength       \* ESP32: 0xFFFF, scaled down

ASSUME SizesAssumption == Sizes \subseteq Nat /\ Sector \in Nat /\ MaxLength \in Nat
ASSUME WordAssumption == Word \in Nat \ {0}
ASSUME NoFileAssumption == NoFile \notin Seq(Values \cup {Blank})
=============================================================================
