------------------------------- MODULE MCStores -------------------------------
(***************************************************************************)
(* The parts of the program that keep data, one after another as in MCNet: *)
(* the configuration, the logger, an HTTP request, strings and addresses.  *)
(***************************************************************************)
EXTENDS Config, Logger, Http, Address

VARIABLE store

storesVars == <<store, cfgVars, logVars, httpVars, text, addrVars>>

StoresInit ==
  /\ store \in {"config", "logger", "http", "text", "address"}
  /\ CfgInit /\ LogInit /\ HttpInit /\ TextInit /\ AddrInit
  /\ store # "http" => m_close

StoresNext ==
  \/ /\ store = "config" /\ CfgNext
     /\ UNCHANGED <<store, logVars, httpVars, text, addrVars>>
  \/ /\ store = "logger" /\ LogNextState
     /\ UNCHANGED <<store, cfgVars, httpVars, text, addrVars>>
  \/ /\ store = "http" /\ HttpNext
     /\ UNCHANGED <<store, cfgVars, logVars, text, addrVars>>
  \/ /\ store = "text" /\ TextNext
     /\ UNCHANGED <<store, cfgVars, logVars, httpVars, addrVars>>
  \/ /\ store = "address" /\ AddrNext
     /\ UNCHANGED <<store, cfgVars, logVars, httpVars, text>>

StoresSpec == StoresInit /\ [][StoresNext]_storesVars

(* The registry has one variable for a name, listeners know what is stored *)
(* and files are applied, unless calls overlap (config.hpp:432-538).       *)
ConfigHolds == store = "config" => ConfigSound

(* Patterns are read to their end, unless a date's '}' is missing or comes *)
(* too early (logger.cpp:194); with no overlapping calls a logger keeps the*)
(* appenders it was given and logs to each (logger.cpp:58-141).            *)
LoggerHolds == store = "logger" => LoggerSound

(* Parameters are what the program said last, else what was received, and  *)
(* both ends agree on closing (http.cpp:79-263).                           *)
HttpHolds == store = "http" => HttpSound

(* Encoding, trimming and "name=value" lists (util.cpp:129-214,            *)
(* http.cpp:217) agree with what they mean.                                *)
TextHolds == store = "text" => TextSound

(* Host strings are split, IPv6 texts read, ports swapped and addresses    *)
(* ordered as they should (address.cpp:42-70, 118, 216, 267).              *)
AddressHolds == store = "address" => AddressSound

-----------------------------------------------------------------------------
CONSTANTS nk, nj, ns     \* keys of the configuration; ns has a space

MCStored == {<<0, 0>>, <<0, 1>>, <<1, 0>>}

MCFiles ==
  { << <<nk, <<1, 0>> >>, <<nj, <<1, 0>> >> >>,
    << <<nk, <<0, 1>> >> >>,
    << <<nk, Unreadable>>, <<ns, <<1, 0>> >> >> }

(* "k" and "j"; "k=1&K=2", "j=+"; "k=3&j=%2B"; "k=1; j=2"; "9".            *)
NameK == <<107>>
NameJ == <<106>>
MCName == {NameK, NameJ}
MCQueries == {NameK \o <<61, 49, 38, 75, 61, 50>>, NameJ \o <<61, 43>>}
MCBodies == {NameK \o <<61, 51, 38>> \o NameJ \o <<61, 37, 50, 66>>}
MCCookieTexts == {NameK \o <<61, 49, 59, 32>> \o NameJ \o <<61, 50>>, Absent}
MCGiven == <<57>>
=============================================================================
