---------------------------- MODULE BusinessKeys ----------------------------
(***************************************************************************)
(* The business key of a Run: given by the caller, or derived from         *)
(* --scheduled-for by the policy of the network.                           *)
(*                                                                         *)
(* A format, a key and a path pattern are abstracted to the set of their   *)
(* parts: placeholders in braces, and literals.  A key is a function from  *)
(* the parts of its format to what stands for them.  Instants count hours  *)
(* of a small calendar.                                                    *)
(*                                                                         *)
(* Sources: domain/business-key.ts, domain/canonical-record-key.ts,        *)
(* orchestration/ensure-run.ts.                                            *)
(***************************************************************************)
EXTENDS Integers, FiniteSets

CONSTANTS
    Offset,         \* the offset of each IANA zone, in hours
    HoursPerDay, DaysPerMonth, MonthsPerYear

ASSUME CalendarAssumption ==
    /\ \A zone \in DOMAIN Offset : Offset[zone] \in Int
    /\ {HoursPerDay, DaysPerMonth, MonthsPerYear} \subseteq Nat \ {0}

\* The literals that matter, one for each rule about the text of a key.
Literals == {"text", ":", "{", "NUL", "overlong"}

ALLOWED_PLACEHOLDERS == {"{network_id}", "{yyyy}", "{MM}", "{dd}"}

\* A --scheduled-for that is no timestamp with an offset.
Garbled == -1

\* What Intl says of an instant in a zone.
CalendarDateAt(instant, zone) ==
    LET day == (instant + Offset[zone]) \div HoursPerDay
        month == day \div DaysPerMonth
    IN [yyyy |-> month \div MonthsPerYear, MM |-> month % MonthsPerYear, dd |-> day % DaysPerMonth]

\* The year is forgotten.
RequiredWithoutYear(period) == IF period = "day" THEN {"{MM}", "{dd}"} ELSE {"{MM}"}

RequiredPlaceholders(period) ==
    IF period = "day" THEN {"{yyyy}", "{MM}", "{dd}"} ELSE {"{yyyy}", "{MM}"}

ValidateScheduledPeriodPolicy(policy) ==
    LET placeholders == policy.format \ Literals
    IN {code \in {"TIMEZONE_INVALID"} : policy.timezone \notin DOMAIN Offset}
       \cup {code \in {"FORMAT_PLACEHOLDER_UNSUPPORTED"} :
                ~(placeholders \subseteq ALLOWED_PLACEHOLDERS)}
       \cup {code \in {"FORMAT_PLACEHOLDER_INVALID"} : "{" \in policy.format}
       \cup {code \in {"FORMAT_PERIOD_MISMATCH"} :
                \/ ~(RequiredPlaceholders(policy.period) \subseteq placeholders)
                \/ policy.period = "month" /\ "{dd}" \in placeholders}

\* Empty, longer than 128 characters, or with a control character.
ValidateBusinessKey(key) ==
    {code \in {"BUSINESS_KEY_EMPTY"} : DOMAIN key = {}}
    \cup {code \in {"BUSINESS_KEY_TOO_LONG"} : "overlong" \in DOMAIN key}
    \cup {code \in {"BUSINESS_KEY_CONTROL_CHARACTER"} : "NUL" \in DOMAIN key}

\* format.replace: every placeholder gives way to its value.
FormatKey(policy, instant) ==
    LET date == CalendarDateAt(instant, policy.timezone)
    IN [part \in policy.format |->
          CASE part = "{yyyy}" -> date.yyyy
            [] part = "{MM}" -> date.MM
            [] part = "{dd}" -> IF policy.period = "month" THEN 0 ELSE date.dd
            [] OTHER -> 0]

Checked(key) == [keys |-> IF ValidateBusinessKey(key) = {} THEN {key} ELSE {},
                 errors |-> ValidateBusinessKey(key)]

Refused(errors) == [keys |-> {}, errors |-> errors]

(* scheduledFor and businessKey are sets: empty when the option is absent. *)
(* A key that is given wins over the one the instant would give.           *)
ResolveBusinessKey(policy, scheduledFor, businessKey) ==
    LET key == CHOOSE k \in businessKey : TRUE
        instant == CHOOSE t \in scheduledFor : TRUE
        policyErrors == ValidateScheduledPeriodPolicy(policy)
    IN IF policy.type = "explicit"
       THEN IF businessKey = {} THEN Refused({"BUSINESS_KEY_REQUIRED"})
            ELSE IF scheduledFor # {} THEN Refused({"SCHEDULED_FOR_NOT_ALLOWED"})
            ELSE Checked(key)
       ELSE CASE scheduledFor = {} /\ businessKey = {} -> Refused({"SCHEDULED_FOR_REQUIRED"})
              [] Garbled \in scheduledFor -> Refused({"SCHEDULED_FOR_INVALID"})
              [] policyErrors # {} -> Refused(policyErrors)
              [] businessKey # {} -> Checked(key)
              [] OTHER -> Checked(FormatKey(policy, instant))

\* `${network_id}@manual-${timestamp}`: the key of a call that names none.
ManualKey(instant) == [part \in {"manual"} |-> instant]

ResolveEnsureBusinessKey(policy, call, now) ==
    LET manual == IF ~call.resume /\ call.scheduledFor = {} THEN {ManualKey(now)} ELSE {}
    IN ResolveBusinessKey(policy, call.scheduledFor,
                          IF call.businessKey # {} THEN call.businessKey ELSE manual)

\* runKey accepts fewer keys than validateBusinessKey.
CanonicalIdentifier(key) == DOMAIN key # {} /\ DOMAIN key \cap {"NUL", ":", "overlong"} = {}
=============================================================================
