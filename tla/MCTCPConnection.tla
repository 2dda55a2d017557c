--------------------------- MODULE MCTCPConnection ---------------------------
(***************************************************************************)
(* Values of the parameters of TCPConnection for TLC, in two settings, one *)
(* of which is picked at the start: that of the configuration, and one     *)
(* where the Client opens again what has failed, over a network that       *)
(* delivers every segment again and again.                                 *)
(***************************************************************************)
EXTENDS TCPStreamRefinement

CONSTANT Settings

VARIABLE setting

Hosts == {Client, Server}

OneWay2 == [h \in Hosts |-> IF h = Client THEN 2 ELSE 0]
OneWay3 == [h \in Hosts |-> IF h = Client THEN 3 ELSE 0]
TwoAndOne == [h \in Hosts |-> IF h = Client THEN 2 ELSE 1]

\* The setting of most of the shipped scenarios.
NoSynRetry == [h \in Hosts |-> 1]

OneSynRetry == [h \in Hosts |-> 2]

\* Five TCBs: the Client opens twice, the Server accepts the first SYN twice, the
\* second time when the network repeats it, and then the second SYN.
Reopening == INSTANCE TCPConnection WITH
    Packets <- OneWay2, Ending <- {}, MaxSynRetries <- OneSynRetry,
    Duplicating <- TRUE, Lossy <- FALSE, MaxTcbs <- 5

ASSUME SettingsAssumption == Settings \subseteq {"configured", "reopening"}

SettingsInit == setting \in Settings /\ Init

SettingsNext ==
    /\ UNCHANGED setting
    /\ \/ setting = "configured" /\ Next
       \/ setting = "reopening" /\ Reopening!Next

SettingsSpec == SettingsInit /\ [][SettingsNext]_<<setting, vars>>
=============================================================================
