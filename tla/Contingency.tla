----------------------------- MODULE Contingency -----------------------------
(***************************************************************************)
(* fiscal_core::contingency::manager: the contingency manager, and its     *)
(* persistence as a line of JSON that is written and read by hand.         *)
(*                                                                         *)
(* A text is a sequence of tokens: "Q" is a double quote, "B" a backslash, *)
(* "L" a line feed, "S" white space; a key of the JSON record, a type      *)
(* name, a number and any other run of characters are one token each.      *)
(***************************************************************************)
EXTENDS EmissionTypes, Naturals, SequencesExt

CONSTANTS
    Types,       \* the contingency types the issuer activates
    Tokens,      \* what a justification is made of
    Reasons,     \* what a caller may pass to activate
    Decimal,     \* how a number is written: a token for each of Numbers
    MinReason,   \* 15 characters, in tokens here
    MaxReason,   \* 255 characters, in tokens here
    MaxText,     \* bound: tokens of a reason that is saved
    MaxClock     \* bound: seconds of the clock

Numbers == (0..MaxClock) \cup EmissionType

ASSUME TypesAssumption == Types \subseteq ContingencyType
ASSUME ReasonsAssumption == Reasons \subseteq Seq(Tokens)
\* Digits are neither quotes nor white space, and two numbers are not
\* written alike.
ASSUME DecimalAssumption ==
    /\ \A n \in Numbers : Decimal[n] \notin {"Q", "S", "L"}
    /\ \A m, n \in Numbers : Decimal[m] = Decimal[n] => m = n
\* A justification is longer than any key of the record, which is one token:
\* 15 characters, and "timestamp" has 9.
ASSUME LengthAssumption == MinReason \in Nat /\ MinReason >= 2
ASSUME BoundsAssumption == MaxClock \in Nat \ {0}

VARIABLES
    mgr,         \* the Contingency value
    json,        \* the line kept on disk, or <<>> if none was written
    clock        \* seconds since the epoch

vars == <<mgr, json, clock>>

new == [contingency_type |-> None, reason |-> None, activated_at |-> None,
        timestamp |-> 0]

emission_type(m) ==
    IF m.contingency_type = None THEN Normal ELSE tp_emis[m.contingency_type]
-----------------------------------------------------------------------------
(***************************************************************************)
(* Writing.                                                                *)
(***************************************************************************)
to_type_str == [SvcAn |-> "SVCAN", SvcRs |-> "SVCRS", Epec |-> "EPEC",
                FsDa |-> "FSDA", FsIa |-> "FSIA", Offline |-> "OFFLINE"]

\* A value that is missing is no value.
ASSUME NoneIsNoValue ==
    /\ None \notin Numbers /\ None \notin ContingencyType
    /\ None \notin Tokens \cup {"Q", "B", "n"} \cup {to_type_str[t] : t \in ContingencyType}

escape_all_but_quotes(text) ==
    FlattenSeq([i \in DOMAIN text |->
        CASE text[i] = "B" -> <<"B", "B">>
          [] text[i] = "L" -> <<"B", "n">>
          [] OTHER -> <<text[i]>>])

escape_json_string(text) ==
    FlattenSeq([i \in DOMAIN text |->
        CASE text[i] = "Q" -> <<"B", "Q">>
          [] text[i] = "B" -> <<"B", "B">>
          [] text[i] = "L" -> <<"B", "n">>
          [] OTHER -> <<text[i]>>])

Field(key, value) == <<"Q", key, "Q", ":">> \o value
Quoted(text) == <<"Q">> \o text \o <<"Q">>

to_json(m) ==
    LET motive == IF m.reason = None THEN <<>> ELSE m.reason
        type   == IF m.contingency_type = None THEN <<>>
                  ELSE <<to_type_str[m.contingency_type]>>
    IN  <<"{">> \o Field("motive", Quoted(escape_json_string(motive)))
          \o <<",">> \o Field("timestamp", <<Decimal[m.timestamp]>>)
          \o <<",">> \o Field("type", Quoted(type))
          \o <<",">> \o Field("tpEmis", <<Decimal[emission_type(m)]>>) \o <<"}">>
-----------------------------------------------------------------------------
(***************************************************************************)
(* Reading.  A key is looked for anywhere in the text; a string ends at    *)
(* the next quote, escaped or not, and nothing is unescaped.               *)
(***************************************************************************)
First(S) == CHOOSE i \in S : \A j \in S : i <= j

White == {"S", "L"}
Solid(text) == {i \in DOMAIN text : text[i] \notin White}

trim_start(text) ==
    IF Solid(text) = {} THEN <<>> ELSE SubSeq(text, First(Solid(text)), Len(text))

\* What follows the first "key": in the text; nothing if the first occurrence
\* of the quoted key is not followed by a colon.  White space may stand on
\* both sides of the colon.
AfterKey(text, key) ==
    LET hits == {i \in 1..(Len(text) - 2) :
                    text[i] = "Q" /\ text[i + 1] = key /\ text[i + 2] = "Q"}
        rest == trim_start(SubSeq(text, First(hits) + 3, Len(text)))
    IN  IF hits # {} /\ rest # <<>> /\ rest[1] = ":" THEN trim_start(Tail(rest)) ELSE <<>>

extract_json_string(text, key) ==
    LET rest == AfterKey(text, key)
        ends == {i \in 2..Len(rest) : rest[i] = "Q"}
    IN  IF rest # <<>> /\ rest[1] = "Q" /\ ends # {}
        THEN SubSeq(rest, 2, First(ends) - 1)
        ELSE <<None>>

extract_json_number(text, key) ==
    LET rest == AfterKey(text, key)
    IN  IF rest # <<>> /\ rest[1] \in {Decimal[n] : n \in Numbers}
        THEN CHOOSE n \in Numbers : Decimal[n] = rest[1]
        ELSE None

Err == [err |-> TRUE]
Ok(m) == [err |-> FALSE, mgr |-> m]

load_raw_time(text) ==
    LET motive == extract_json_string(text, "motive")
        time   == extract_json_number(text, "timestamp")
        type   == extract_json_string(text, "type")
        known  == {t \in ContingencyType : type = <<to_type_str[t]>>}
    IN  IF \/ <<None>> \in {motive, type}
           \/ None \in {time, extract_json_number(text, "tpEmis")}
           \/ type # <<>> /\ known = {}
        THEN Err
        ELSE Ok([contingency_type |-> IF type = <<>> THEN None ELSE CHOOSE t \in known : TRUE,
                 reason |-> IF motive = <<>> THEN None ELSE motive,
                 activated_at |-> time,
                 timestamp |-> time])

load(text) ==
    LET motive == extract_json_string(text, "motive")
        time   == extract_json_number(text, "timestamp")
        type   == extract_json_string(text, "type")
        known  == {t \in ContingencyType : type = <<to_type_str[t]>>}
    IN  IF \/ <<None>> \in {motive, type}
           \/ None \in {time, extract_json_number(text, "tpEmis")}
           \/ type # <<>> /\ known = {}
        THEN Err
        ELSE Ok([contingency_type |-> IF type = <<>> THEN None ELSE CHOOSE t \in known : TRUE,
                 reason |-> IF motive = <<>> THEN None ELSE motive,
                 activated_at |-> IF time > 0 THEN time ELSE None,
                 timestamp |-> time])
-----------------------------------------------------------------------------
Init == mgr = new /\ json = <<>> /\ clock = 1

Tick == clock < MaxClock /\ clock' = clock + 1 /\ UNCHANGED <<mgr, json>>

trim(text) ==
    LET last == CHOOSE i \in Solid(text) : \A j \in Solid(text) : j <= i
    IN  IF Solid(text) = {} THEN <<>> ELSE SubSeq(text, First(Solid(text)), last)

\* A reason of the wrong length leaves the manager as it was.
activate(type, reason) ==
    /\ Len(trim(reason)) \in MinReason..MaxReason
    /\ mgr' = [contingency_type |-> type, reason |-> trim(reason),
               activated_at |-> clock, timestamp |-> clock]
    /\ UNCHANGED <<json, clock>>

deactivate_type_only ==
    /\ mgr' = [mgr EXCEPT !.contingency_type = None]
    /\ UNCHANGED <<json, clock>>

deactivate ==
    /\ mgr' = new
    /\ UNCHANGED <<json, clock>>

\* The application writes the manager down.
Save ==
    /\ mgr.reason # None => Len(mgr.reason) <= MaxText
    /\ json' = to_json(mgr)
    /\ UNCHANGED <<mgr, clock>>

\* It starts again from what it wrote; from `new' if nothing can be loaded.
Restart ==
    /\ mgr' = IF load(json).err THEN new ELSE load(json).mgr
    /\ UNCHANGED <<json, clock>>

Next ==
    \/ Tick \/ deactivate \/ Save \/ Restart
    \/ \E type \in Types, reason \in Reasons : activate(type, reason)

Spec == Init /\ [][Next]_vars
-----------------------------------------------------------------------------
\* The manager and the clock hold values of their types, and no contingency
\* is active exactly when no activation time is kept.
TypeOK ==
    /\ mgr.contingency_type \in ContingencyType \cup {None}
    /\ mgr.timestamp \in 0..MaxClock
    /\ clock \in 1..MaxClock
    /\ mgr.contingency_type = None <=> mgr.timestamp = 0

Same(m, n) ==
    /\ m.contingency_type = n.contingency_type
    /\ m.timestamp = n.timestamp
    /\ m.activated_at = n.activated_at

\* However a justification is worded, what is loaded from the saved line
\* is never another contingency: the text of the reason cannot be taken
\* for the fields that follow it.  (It may be that nothing is loaded.)
NoOtherContingency ==
    LET r == load(to_json(mgr)) IN r.err \/ Same(r.mgr, mgr)

\* A justification without quotes, backslashes and control characters
\* survives saving and loading, with everything else, restart after restart.
PlainRoundTrip ==
    LET plain == mgr.reason = None \/ \A i \in DOMAIN mgr.reason :
                     mgr.reason[i] \notin {"Q", "B", "L"}
    IN  plain => load(to_json(mgr)) = Ok(mgr)
=============================================================================
