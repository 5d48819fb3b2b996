---------------------------- MODULE PgwireSession ----------------------------
(***************************************************************************)
(* One connection of the PostgreSQL listener, from its first byte to its   *)
(* end: the driver of pgwire/driver.py over the channels of                *)
(* pgwire/transport.py, the packets of pgwire/framing.py, the exchange of  *)
(* pgwire/scram.py and the verifiers of pgwire/credential.py.              *)
(*                                                                         *)
(* The session runs in one thread.  Around it the client sends what it     *)
(* likes, deadlines pass and the owner asks it to stop.  A message is      *)
(* abstracted to what decides its fate: whether it has the right form and  *)
(* which parts of the identity in it are right.                            *)
(***************************************************************************)
EXTENDS Naturals, Sequences

CONSTANTS
    Rounds,   \* TransportLimits.tls_handshake_rounds
    None      \* no category, no failure, nothing presented

VARIABLES
    config,         \* the TLS context is present, and TLS is required
    pc,             \* what the session is about to do
    polled,         \* check() has passed for the slice in progress
    timers,         \* each Deadline: not created, running or over
    stop,           \* the owner's stop signal
    channel,        \* the channel messages go through: "raw" or "tls"
    round,          \* rounds of the TLS handshake
    client,         \* what the client has presented
    accepted,       \* client_final has returned
    reserved,       \* reserve_session has returned True
    authenticated,  \* _authenticated: AuthenticationOk has been sent
    sent,           \* what was sent whole, with the channel it went through
    category,       \* the PgwireStartupError raised
    failure         \* the TransportError raised

wireVars == <<channel, round, sent>>
identityVars == <<client, accepted, reserved, authenticated>>
outcomeVars == <<category, failure>>
vars == <<config, pc, polled, timers, stop, wireVars, identityVars, outcomeVars>>

Timer == {"startup", "idle", "report", "linger"}
Refusal == {"AUTHENTICATION_FAILED", "PROTOCOL_VIOLATION", "FEATURE_NOT_SUPPORTED",
            "TOO_MANY_CONNECTIONS", "INTERNAL_ERROR"}
Failure == {"EOF", "TIMEOUT", "STOPPED", "IO", "TLS", "LIMIT"}

\* The packet a connection starts with: "unsupported" is a code refused by
\* classify_initial, "option" a parameter refused by parse_startup, and
\* "malformed" and "garbage" break the form each of the two expects.
Initial == {"ssl", "startup", "option", "malformed", "unsupported", "garbage"}
User == {"principal", "other"}
Alias == {"accepted", "refused"}
Mechanism == {"SCRAM-SHA-256", "SCRAM-SHA-256-PLUS", "other"}
Flag == {"n", "y", "p"}

Nobody == [user |-> None, alias |-> None, mechanism |-> None, flag |-> None, final |-> None]

\* The comparisons of client_final: the channel binding, the nonce and the
\* proof of the password.
Final == [binding : BOOLEAN, nonce : BOOLEAN, proof : BOOLEAN]

NoneAssumption == None \notin User \cup Alias \cup Mechanism \cup Flag \cup Final \cup Refusal

Reading == {"initial", "second", "first", "final", "ready", "length", "linger"}
Sending == {"answer", "sasl", "continue", "ok", "report"}
CheckOnly == {"entry", "recheck"}

Sent == [message : {"S", "N", "SASL", "SASLContinue", "ReadyForQuery", "ErrorResponse"},
         over : {"raw", "tls"},
         about : {"ssl", "plus", "plain", "principal", "session"} \cup Refusal \cup {None}]

Types ==
    /\ config \in [tls : BOOLEAN, required : BOOLEAN]
    /\ stop \in BOOLEAN /\ accepted \in BOOLEAN /\ reserved \in BOOLEAN /\ authenticated \in BOOLEAN
    /\ channel \in {"raw", "tls"}
    /\ client \in [user : User \cup {None}, alias : Alias \cup {None},
                   mechanism : Mechanism \cup {None}, flag : Flag \cup {None},
                   final : Final \cup {None}]
    /\ sent \in Seq(Sent)
    /\ category \in Refusal \cup {None}

TypeOK ==
    /\ Types
    /\ pc \in Reading \cup Sending \cup CheckOnly \cup {"handshake", "reserve", "end"}
    /\ polled \in BOOLEAN
    /\ timers \in [Timer -> {"off", "on", "over"}]
    /\ round \in 0..Rounds
    /\ failure \in Failure \cup {None}

\* The owner created the startup deadline when it accepted the connection.
\* _Session refuses to be built with TLS required and no context.
Init ==
    /\ config \in {c \in [tls : BOOLEAN, required : BOOLEAN] : c.required => c.tls}
    /\ pc = "entry"
    /\ polled = FALSE
    /\ timers = [t \in Timer |-> IF t = "startup" THEN "on" ELSE "off"]
    /\ stop = FALSE
    /\ channel = "raw"
    /\ round = 0
    /\ client = Nobody
    /\ accepted = FALSE
    /\ reserved = FALSE
    /\ authenticated = FALSE
    /\ sent = << >>
    /\ category = None
    /\ failure = None

-----------------------------------------------------------------------------
(* Slices: every wait is cut into slices, and each begins with check().    *)

(* The deadline each wait is given. *)
CurrentTimer ==
    CASE pc \in {"ready", "length"} -> "idle"
      [] pc = "report" /\ authenticated -> "report"
      [] pc = "linger" -> "linger"
      [] OTHER -> "startup"

MayGoOn == ~stop /\ timers[CurrentTimer] # "over"

Goto(next) == pc' = next /\ polled' = FALSE

(* run: an error once reported, or the discarding after it, leaves the     *)
(* outcome as it is.                                                       *)
Fail(kind) ==
    /\ Goto("end")
    /\ failure' = IF pc \in {"report", "linger"} THEN failure ELSE kind
    /\ UNCHANGED <<category, timers>>

Start(timer) == timers' = [timers EXCEPT ![timer] = "on"]

(* run and _report: an authenticated session gets a short new deadline.    *)
Raise(refusal) ==
    /\ Goto("report")
    /\ category' = refusal
    /\ IF authenticated THEN Start("report") ELSE UNCHANGED timers
    /\ UNCHANGED failure

(* check: the stop signal first, then the deadline. *)
CheckPasses ==
    /\ pc \in Reading \cup Sending \cup {"handshake"} \cup CheckOnly
    /\ ~polled
    /\ MayGoOn
    /\ CASE pc = "entry" -> Goto("initial")
         [] pc = "recheck" -> Goto("reserve")
         [] OTHER -> polled' = TRUE /\ UNCHANGED pc
    /\ UNCHANGED <<config, timers, stop, wireVars, identityVars, outcomeVars>>

CheckFails ==
    /\ pc \in Reading \cup Sending \cup {"handshake"} \cup CheckOnly
    /\ ~polled
    /\ ~MayGoOn
    /\ Fail(IF stop THEN "STOPPED" ELSE "TIMEOUT")
    /\ UNCHANGED <<config, stop, wireVars, identityVars>>

\* Faulty variant of Slice: bytes that arrive renew the deadline.
SliceRenewing ==
    /\ polled
    /\ Goto(pc)
    /\ timers' = [timers EXCEPT ![CurrentTimer] = "on"]
    /\ UNCHANGED <<config, stop, wireVars, identityVars, outcomeVars>>

(* A slice ends with nothing, or with part of what is read or sent. *)
Slice ==
    /\ polled
    /\ Goto(pc)
    /\ UNCHANGED <<config, timers, stop, wireVars, identityVars, outcomeVars>>

(* The socket fails, the peer closes it, or a record cannot be decrypted.  *)
Broken ==
    /\ polled
    /\ \E kind \in {"IO"} \cup (IF pc \in Reading \cup {"handshake"} THEN {"EOF"} ELSE {})
                          \cup (IF channel = "tls" THEN {"TLS"} ELSE {}) : Fail(kind)
    /\ UNCHANGED <<config, stop, wireVars, identityVars>>

Receives(at) == pc = at /\ polled

(* send_all has sent the last byte. *)
Send(at, message, about) ==
    /\ pc = at
    /\ polled
    /\ sent' = Append(sent, [message |-> message, over |-> channel, about |-> about])
    /\ UNCHANGED <<channel, round>>

-----------------------------------------------------------------------------
(* _negotiate and parse_startup. *)

Presents(field, value) == client' = [client EXCEPT ![field] = value]

ParseStartup(packet) ==
    IF packet = "startup"
    THEN \E user \in User, alias \in Alias :
            /\ client' = [client EXCEPT !.user = user, !.alias = alias]
            /\ Goto("sasl")
            /\ UNCHANGED <<timers, category, failure>>
    ELSE /\ Raise(IF packet = "option" THEN "FEATURE_NOT_SUPPORTED" ELSE "PROTOCOL_VIOLATION")
         /\ UNCHANGED client

ClearAllowed == ~config.required

ReadInitial ==
    /\ Receives("initial")
    /\ \E packet \in Initial :
         CASE packet = "ssl" -> Goto("answer") /\ UNCHANGED <<timers, client, category, failure>>
           [] packet = "unsupported" -> Raise("FEATURE_NOT_SUPPORTED") /\ UNCHANGED client
           [] packet = "garbage" -> Raise("PROTOCOL_VIOLATION") /\ UNCHANGED client
           [] packet \in {"startup", "option", "malformed"} /\ ~ClearAllowed ->
                Raise("PROTOCOL_VIOLATION") /\ UNCHANGED client
           [] OTHER -> ParseStartup(packet)
    /\ UNCHANGED <<config, stop, wireVars, accepted, reserved, authenticated>>

AnswerSsl ==
    /\ Send("answer", IF config.tls THEN "S" ELSE "N", "ssl")
    /\ Goto(IF config.tls THEN "handshake" ELSE "second")
    /\ UNCHANGED <<config, timers, stop, identityVars, outcomeVars>>

(* handshake: a round asks for more, ends the handshake, or fails; rounds  *)
(* and bytes are limited.                                                  *)
HandshakeRound ==
    /\ Receives("handshake")
    /\ round < Rounds
    /\ round' = round + 1
    /\ Goto("handshake")
    /\ UNCHANGED <<config, timers, stop, channel, sent, identityVars, outcomeVars>>

HandshakeDone ==
    /\ Receives("handshake")
    /\ round < Rounds
    /\ channel' = "tls"
    /\ Goto("second")
    /\ UNCHANGED <<config, timers, stop, round, sent, identityVars, outcomeVars>>

HandshakeFails ==
    /\ Receives("handshake")
    /\ Fail("TLS")
    /\ UNCHANGED <<config, stop, wireVars, identityVars>>

HandshakeLimit ==
    /\ Receives("handshake")
    /\ Fail("LIMIT")
    /\ UNCHANGED <<config, stop, wireVars, identityVars>>

(* After the answer only a StartupMessage is accepted. *)
ReadSecond ==
    /\ Receives("second")
    /\ \E packet \in Initial :
         CASE packet \in {"ssl", "garbage"} -> Raise("PROTOCOL_VIOLATION") /\ UNCHANGED client
           [] packet = "unsupported" -> Raise("FEATURE_NOT_SUPPORTED") /\ UNCHANGED client
           [] OTHER -> ParseStartup(packet)
    /\ UNCHANGED <<config, stop, wireVars, accepted, reserved, authenticated>>

-----------------------------------------------------------------------------
(* _authenticate: the SCRAM exchange. *)

BindingOffered == channel = "tls"

Mechanisms ==
    {"SCRAM-SHA-256"} \cup (IF BindingOffered THEN {"SCRAM-SHA-256-PLUS"} ELSE {})

SendMechanisms ==
    /\ Send("sasl", "SASL", IF BindingOffered THEN "plus" ELSE "plain")
    /\ Goto("first")
    /\ UNCHANGED <<config, timers, stop, identityVars, outcomeVars>>

(* _flag_allowed: the mechanism, the flag and the offer agree. *)
FlagAllowed(mechanism, flag) ==
    IF mechanism = "SCRAM-SHA-256-PLUS" THEN flag = "p"
    ELSE flag = "n" \/ (flag = "y" /\ ~BindingOffered)

(* client_first.  The message may be of the wrong form, and the source of  *)
(* the server's nonce may fail.                                            *)
ReadFirst ==
    /\ Receives("first")
    /\ \E mechanism \in Mechanism, flag \in Flag, formed \in BOOLEAN, nonce \in BOOLEAN :
         /\ client' = [client EXCEPT !.mechanism = mechanism, !.flag = flag]
         /\ IF formed /\ mechanism \in Mechanisms /\ FlagAllowed(mechanism, flag)
            THEN IF nonce
                 THEN Goto("continue") /\ UNCHANGED <<timers, category, failure>>
                 ELSE Raise("INTERNAL_ERROR")
            ELSE Raise("PROTOCOL_VIOLATION")
    /\ UNCHANGED <<config, stop, wireVars, accepted, reserved, authenticated>>

(* verifier_for: the simulated verifier has the principal's public part.   *)
Salt == "principal"

SendContinue ==
    /\ Send("continue", "SASLContinue", Salt)
    /\ Goto("final")
    /\ UNCHANGED <<config, timers, stop, identityVars, outcomeVars>>

\* Faulty variant of Accepts: the decision on the alias is left out.
AcceptsAnyAlias(final) ==
    final.binding /\ final.nonce /\ final.proof /\ client.user = "principal"

(* client_final: one decision, after every comparison.  No proof fits the  *)
(* keys of a simulated verifier.                                           *)
Accepts(final) ==
    /\ final.binding
    /\ final.nonce
    /\ final.proof /\ client.user = "principal"
    /\ client.alias = "accepted"

ReadFinal ==
    /\ Receives("final")
    /\ \/ /\ Raise("PROTOCOL_VIOLATION")
          /\ UNCHANGED <<client, accepted>>
       \/ \E final \in Final :
            /\ Presents("final", final)
            /\ accepted' = Accepts(final)
            /\ IF Accepts(final)
               THEN Goto("recheck") /\ UNCHANGED <<timers, category, failure>>
               ELSE Raise("AUTHENTICATION_FAILED")
    /\ UNCHANGED <<config, stop, wireVars, reserved, authenticated>>

-----------------------------------------------------------------------------
(* _drive after the proof, and _after_ready. *)

(* reserve_session: the listener's _promote, which refuses after a stop.   *)
ReserveSession ==
    /\ pc = "reserve"
    /\ \/ ~stop /\ reserved' = TRUE /\ Goto("ok") /\ UNCHANGED <<timers, category, failure>>
       \/ UNCHANGED reserved /\ \E refusal \in {"TOO_MANY_CONNECTIONS", "INTERNAL_ERROR"} : Raise(refusal)
    /\ UNCHANGED <<config, stop, wireVars, client, accepted, authenticated>>

SendReady ==
    /\ Send("ok", "ReadyForQuery", "session")
    /\ authenticated' = TRUE
    /\ Start("idle")
    /\ Goto("ready")
    /\ UNCHANGED <<config, stop, client, accepted, reserved, outcomeVars>>

ReadKind ==
    /\ Receives("ready")
    /\ \/ Goto("length") /\ UNCHANGED <<timers, category, failure>>
       \/ Raise("FEATURE_NOT_SUPPORTED")
    /\ UNCHANGED <<config, stop, wireVars, identityVars>>

ReadTerminate ==
    /\ Receives("length")
    /\ \/ Goto("end") /\ UNCHANGED <<timers, category, failure>>
       \/ Raise("PROTOCOL_VIOLATION")
    /\ UNCHANGED <<config, stop, wireVars, identityVars>>

(* _report: the error, and then the discarding of what the client sends.   *)
Report ==
    /\ Send("report", "ErrorResponse", category)
    /\ Start("linger")
    /\ Goto("linger")
    /\ UNCHANGED <<config, stop, identityVars, outcomeVars>>

LingerEnds ==
    /\ Receives("linger")
    /\ Goto("end")
    /\ UNCHANGED <<config, timers, stop, wireVars, identityVars, outcomeVars>>

-----------------------------------------------------------------------------
(* The surroundings: time passes, and the owner asks for the end. *)

TimePasses ==
    /\ pc # "end"
    /\ \E t \in Timer :
         /\ timers[t] = "on"
         /\ timers' = [timers EXCEPT ![t] = "over"]
    /\ UNCHANGED <<config, pc, polled, stop, wireVars, identityVars, outcomeVars>>

RequestStop ==
    /\ pc # "end"
    /\ ~stop
    /\ stop' = TRUE
    /\ UNCHANGED <<config, pc, polled, timers, wireVars, identityVars, outcomeVars>>

Ended == pc = "end" /\ UNCHANGED vars

SessionStep ==
    \/ CheckPasses \/ CheckFails \/ Slice \/ Broken
    \/ ReadInitial \/ AnswerSsl
    \/ HandshakeRound \/ HandshakeDone \/ HandshakeFails \/ HandshakeLimit
    \/ ReadSecond
    \/ SendMechanisms \/ ReadFirst \/ SendContinue \/ ReadFinal
    \/ ReserveSession \/ SendReady \/ ReadKind \/ ReadTerminate
    \/ Report \/ LingerEnds

Next == SessionStep \/ TimePasses \/ RequestStop \/ Ended

Spec == Init /\ [][Next]_vars

(* The thread runs and deadlines come; nothing is assumed of the client,   *)
(* who may go on sending a byte in every slice, nor of the owner.          *)
FairSpec ==
    /\ Spec
    /\ WF_vars(SessionStep)
    /\ \A t \in Timer : WF_vars(TimePasses /\ timers'[t] # timers[t])

-----------------------------------------------------------------------------
Messages == {sent[i].message : i \in 1..Len(sent)}

(* ReadyForQuery is sent only to the principal, with the password, bound   *)
(* to this channel, for an alias of the catalogue, with a session slot     *)
(* taken and, where TLS is required, over TLS (_drive).                    *)
ReadyIsEarned ==
    "ReadyForQuery" \in Messages =>
        /\ client.user = "principal"
        /\ client.alias = "accepted"
        /\ client.final # None
        /\ client.final.binding /\ client.final.nonce /\ client.final.proof
        /\ reserved
        /\ config.required => channel = "tls"

(* A complete attempt that fails shows the client the same whichever part  *)
(* of the identity was wrong: the same salt before, the same refusal       *)
(* after (verifier_for, client_final).                                     *)
RefusalsLookTheSame ==
    /\ client.final # None /\ ~accepted => category = "AUTHENTICATION_FAILED"
    /\ \A i \in 1..Len(sent) :
         sent[i].message = "SASLContinue" => sent[i].about = "principal"

(* Every session ends, whatever the client does and even when nobody asks  *)
(* for it: no deadline is renewed by what the client sends (transport).    *)
SessionEnds == <>(pc = "end")

(* A client that can bind the channel, and was made to believe the server  *)
(* cannot, does not get in when the server did offer it (_flag_allowed).   *)
NoDowngrade == reserved /\ channel = "tls" => client.flag # "y"

(* Once S was sent nothing goes out in clear, not even an error (_negotiate). *)
NothingInClearAfterS ==
    \A i, j \in 1..Len(sent) :
        i < j /\ sent[i].message = "S" => sent[j].over = "tls"

(* Neither the encryption nor its binding to the authentication is taken   *)
(* away from a client, on any path through the handshake and out of it.    *)
EncryptionKept ==
    /\ NoDowngrade
    /\ NothingInClearAfterS

(* The session is sound: readiness is earned, refusals tell nothing apart  *)
(* and the encryption is kept, on every path of _drive and out of it.      *)
SessionSound ==
    /\ ReadyIsEarned
    /\ RefusalsLookTheSame
    /\ EncryptionKept
-----------------------------------------------------------------------------
(* Why it is sound: the session goes one way, and what it may still do     *)
(* follows from where it is.                                               *)

Clear == {"entry", "initial", "answer"}
Proving == {"second", "sasl", "first", "continue", "final"}
Done == {"recheck", "reserve", "ok", "ready", "length"}
Out == {"report", "linger", "end"}

(* Identity and readiness are decided in the order of _drive. *)
OneWay ==
    /\ pc \in Clear \cup {"handshake"} \cup Proving \cup Done \cup Out
    /\ config.required => config.tls
    /\ pc \in Clear => channel = "raw"
    /\ pc = "handshake" => config.tls
    /\ pc \in Proving \/ accepted => (config.required => channel = "tls")
    /\ pc \in Done => accepted
    /\ accepted => pc \in Done \cup Out
    /\ pc \notin Done \cup Out => client.final = None
    /\ reserved => accepted
    /\ pc \in {"ok", "ready", "length"} => reserved
    /\ pc \in {"ready", "length"} \/ authenticated => reserved
    /\ client.final # None /\ ~accepted => pc \in Out /\ category = "AUTHENTICATION_FAILED"

(* The proof that was accepted is the one the client presented. *)
ProofIsKept ==
    accepted =>
        /\ client.user = "principal" /\ client.alias = "accepted" /\ client.final # None
        /\ client.final.binding /\ client.final.nonce /\ client.final.proof

BindingIsKept == pc \in {"continue", "final"} \/ accepted => (channel = "tls" => client.flag # "y")

(* What a message of each kind says about the session. *)
SentInOrder ==
    \A i \in 1..Len(sent) :
        /\ sent[i].message = "ReadyForQuery" => authenticated
        /\ sent[i].message = "SASLContinue" => sent[i].about = "principal"
        /\ sent[i].message = "S" => channel = "tls" \/ pc \in {"handshake", "end"}

IInv ==
    /\ Types
    /\ OneWay
    /\ ProofIsKept
    /\ BindingIsKept
    /\ SentInOrder
    /\ NothingInClearAfterS
=============================================================================
