------------------------------- MODULE MCValues -------------------------------
(* The values a unit publishes, each from its source to the packet: the    *)
(* stored cell (every damage of one or two bits and every inverted byte,   *)
(* for samples of both signs and the largest difference), the filtered     *)
(* signal (every sequence of three levels, long enough for a loud window   *)
(* and a quiet one), and the telemetry.  They share nothing, so that one   *)
(* of them moves in a behaviour.                                           *)
EXTENDS SampleCodec, SignalPath, UnitTelemetry

VARIABLE part

valuesVars == <<part, codecVars, signalVars, telemetryVars>>

Vector(a, b, c, d) == [k \in Channels |-> <<a, b, c, d>>[k + 1]]

MCSamples ==
  {Vector(0, 0, 0, 0), Vector(-16383, 16383, -300, 1)}

MCDamages ==
  {{a, b} : a, b \in CellBits} \cup {(8 * k) .. (8 * k + 7) : k \in 0 .. 9}

MCInputs == {-9, 0, 8}

(* What does not move starts in the one state its start allows; of the     *)
(* telemetry there are several, and one is enough where it stands still.   *)
ValuesInit ==
  /\ part \in {"cell", "signal", "telemetry"}
  /\ CodecInit /\ SignalInit /\ TelemetryInit
  /\ part # "telemetry" => enabled /\ line = "sensor" /\ epoch = 6

ValuesNext ==
  \/ part = "cell" /\ CodecNext /\ UNCHANGED <<part, signalVars, telemetryVars>>
  \/ part = "signal" /\ SignalNext /\ UNCHANGED <<part, codecVars, telemetryVars>>
  \/ part = "telemetry" /\ TelemetryNext /\ UNCHANGED <<part, codecVars, signalVars>>

(* Only the telemetry has fairness, where it is the part that moves.       *)
ValuesFairness == part = "telemetry" => TelemetryFairness

ValuesSpec == ValuesInit /\ [][ValuesNext]_valuesVars /\ ValuesFairness
=============================================================================
