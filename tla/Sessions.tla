------------------------------- MODULE Sessions -------------------------------
(***************************************************************************)
(* The sessions of one user (authentication.py, middleware.py): password,  *)
(* then a challenge bound to the password hash and the session version,    *)
(* then a one-time code or a recovery code checked with the user's rows    *)
(* locked; the replacement of the authenticator in two steps; and the      *)
(* administration that changes the user or resets the second factor while  *)
(* several browsers sign in.                                               *)
(***************************************************************************)
EXTENDS Naturals, FiniteSets

CONSTANTS
    Browsers,
    Codes,          \* recovery codes of one enrolment (eight)
    MaxPasswords,   \* bound: passwords
    MaxVersions,    \* bound: session versions
    MaxDevices,     \* bound: authenticators
    MaxTime         \* bound: 30-second steps of a one-time code

SessionsAssumption ==
    /\ IsFiniteSet(Codes) /\ Codes \cap (0..MaxTime) = {}
    /\ {MaxPasswords, MaxVersions, MaxDevices, MaxTime} \subseteq Nat \ {0}

VARIABLES
    active, password,   \* the user
    version, codes,     \* the profile: session_version, and the recovery codes left
    device, last,       \* the confirmed authenticator (0: none), and the last step it accepted
    locked,             \* recovery_locked_until is ahead
    made,               \* authenticators enrolled or begun
    now,
    session,            \* the session of each browser
    read,               \* what pending_identity read, without a lock, of codes and last
    change,             \* authenticator_change of each session
    uses                \* history: how often each code of each authenticator was accepted

user == <<active, password>>
profile == <<version, codes, locked>>
factor == <<device, last, made>>
vars == <<user, profile, factor, now, session, read, change, uses>>

(* proved is the password the browser showed, hash the one the session is  *)
(* bound to, device the authenticator of its second factor.                *)
Session == [kind : {"anonymous", "password", "pending", "in"}, version : 0..MaxVersions,
            hash : 0..MaxPasswords, proved : 0..MaxPasswords, device : 0..MaxDevices]
Anonymous == [kind |-> "anonymous", version |-> 0, hash |-> 0, proved |-> 0, device |-> 0]
Steps == 0..MaxTime
Tokens == (Codes \cup Steps) \X (0..MaxDevices)
Unread == [codes |-> {}, last |-> 0]
NoChange == [device |-> 0, version |-> 0, hash |-> 0]

TypeOK ==
    /\ active \in BOOLEAN /\ password \in 1..MaxPasswords
    /\ version \in 1..MaxVersions /\ codes \subseteq Codes /\ locked \in BOOLEAN
    /\ device \in 0..MaxDevices /\ last \in Steps /\ made \in device..MaxDevices
    /\ now \in Steps
    /\ session \in [Browsers -> Session]
    /\ read \in [Browsers -> [codes : SUBSET Codes, last : Steps]]
    /\ change \in [Browsers -> [device : 0..MaxDevices, version : 0..MaxVersions, hash : 0..MaxPasswords]]
    /\ uses \in [Tokens -> 0..2]

Init ==
    /\ active = TRUE /\ password = 1 /\ version = 1 /\ codes = {} /\ locked = FALSE
    /\ device = 0 /\ last = 0 /\ made = 0 /\ now = 1
    /\ session = [b \in Browsers |-> Anonymous] /\ read = [b \in Browsers |-> Unread]
    /\ change = [b \in Browsers |-> NoChange] /\ uses = [t \in Tokens |-> 0]

Become(b, s) == session' = [session EXCEPT ![b] = s] /\ change' = [change EXCEPT ![b] = NoChange]
Counted(t, d) == uses' = [uses EXCEPT ![<<t, d>>] = IF @ = 2 THEN 2 ELSE @ + 1]

----------------------------------------------------------------------------
(* Signing in: the password is checked on a copy of the user; the          *)
(* challenge takes the version as it is when it is saved.                  *)
CheckPassword(b) ==
    /\ session[b].kind = "anonymous" /\ active
    /\ Become(b, [Anonymous EXCEPT !.kind = "password", !.hash = password, !.proved = password])
    /\ UNCHANGED <<user, profile, factor, now, read, uses>>

BeginLogin(b) ==
    /\ session[b].kind = "password"
    /\ Become(b, [session[b] EXCEPT !.kind = "pending", !.version = version])
    /\ UNCHANGED <<user, profile, factor, now, read, uses>>

\* Mutant: the challenge is not bound to the password.
Valid_AnyPassword(b) == active /\ session[b].version = version

Valid(b) == active /\ session[b].version = version /\ session[b].hash = password

PendingIdentity(b) ==
    /\ session[b].kind = "pending"
    /\ IF Valid(b) THEN session' = session ELSE session' = [session EXCEPT ![b] = Anonymous]
    /\ read' = [read EXCEPT ![b] = [codes |-> codes, last |-> last]]
    /\ UNCHANGED <<user, profile, factor, now, change, uses>>

\* The browser goes back to the password.
Restart(b) ==
    /\ session[b].kind = "pending"
    /\ Become(b, Anonymous)
    /\ UNCHANGED <<user, profile, factor, now, read, uses>>

\* Mutant: the factor is checked against what was read before the lock.
Rows_Unlocked(b) == read[b]

Rows(b) == [codes |-> codes, last |-> last]

SignedIn(b, d) == Become(b, [session[b] EXCEPT !.kind = "in", !.version = version, !.hash = password, !.device = d])

(* verify_factor, with the user, the profile and the device locked. *)
VerifyExpired(b) ==
    /\ session[b].kind = "pending" /\ ~Valid(b)
    /\ Become(b, Anonymous)
    /\ UNCHANGED <<user, profile, factor, now, read, uses>>

Challenged(b) == session[b].kind = "pending" /\ Valid(b)

VerifyEnrols(b) ==
    /\ Challenged(b) /\ device = 0 /\ ~locked /\ made < MaxDevices
    /\ made' = made + 1 /\ device' = made + 1 /\ last' = now
    /\ codes' = Codes
    /\ Counted(now, made + 1) /\ SignedIn(b, made + 1)
    /\ UNCHANGED <<user, version, locked, now, read>>

VerifyToken(b) ==
    /\ Challenged(b) /\ device # 0 /\ ~locked /\ now > Rows(b).last
    /\ last' = now
    /\ Counted(now, device) /\ SignedIn(b, device)
    /\ UNCHANGED <<user, profile, device, made, now, read>>

VerifyRecovery(b) ==
    /\ Challenged(b) /\ device # 0 /\ ~locked
    /\ \E c \in Rows(b).codes :
         /\ codes' = Rows(b).codes \ {c}
         /\ Counted(c, device) /\ SignedIn(b, device)
    /\ UNCHANGED <<user, version, locked, factor, now, read>>

VerifyFails(b) ==
    /\ Challenged(b) /\ ~locked /\ locked' = TRUE
    /\ UNCHANGED <<user, version, codes, factor, now, session, read, change, uses>>

(* A later request: the middleware compares the version, Django the hash.  *)
Live(b) == session[b].kind = "in" /\ active /\ session[b].version = version /\ session[b].hash = password

Request(b) ==
    /\ session[b].kind = "in" /\ ~Live(b)
    /\ Become(b, Anonymous)
    /\ UNCHANGED <<user, profile, factor, now, read, uses>>

\* The second factor is older than the session may be: back to a challenge.
MfaExpires(b) ==
    /\ Live(b)
    /\ Become(b, [session[b] EXCEPT !.kind = "pending", !.device = 0])
    /\ UNCHANGED <<user, profile, factor, now, read, uses>>

----------------------------------------------------------------------------
(* Replacing the authenticator: a code of the old one, then of the new.    *)
ChangeBegins(b) ==
    /\ Live(b) /\ device # 0 /\ ~locked /\ now > last /\ made < MaxDevices
    /\ last' = now /\ made' = made + 1
    /\ Counted(now, device)
    /\ change' = [change EXCEPT ![b] = [device |-> made + 1, version |-> version, hash |-> password]]
    /\ UNCHANGED <<user, profile, device, now, session, read>>

\* The replacement that is there: a later beginning deletes an earlier one's device.
Replacing(b) ==
    /\ change[b].device = made /\ made > device
    /\ change[b].version = version /\ change[b].hash = password

NextVersion == version + 1

ChangeEnds(b) ==
    /\ Live(b) /\ Replacing(b) /\ ~locked /\ version < MaxVersions
    /\ device' = change[b].device /\ last' = now
    /\ codes' = Codes /\ version' = NextVersion
    /\ Counted(now, change[b].device)
    /\ Become(b, [session[b] EXCEPT !.version = NextVersion, !.device = change[b].device])
    /\ UNCHANGED <<user, locked, made, now, read>>

ChangeFails(b) ==
    /\ Live(b) /\ ~locked /\ locked' = TRUE
    /\ UNCHANGED <<user, version, codes, factor, now, session, read, change, uses>>

----------------------------------------------------------------------------
(* The administration, and the clock. *)
ApplyUserChange ==
    /\ version < MaxVersions /\ version' = version + 1
    /\ active' \in BOOLEAN
    /\ password' \in {password, password + 1} /\ password' <= MaxPasswords
    /\ UNCHANGED <<codes, locked, factor, now, session, read, change, uses>>

\* Also what a changed membership and the user's own sign-out everywhere do.
RevokeSessions ==
    /\ version < MaxVersions /\ version' = version + 1
    /\ UNCHANGED <<user, codes, locked, factor, now, session, read, change, uses>>

RecoverMfa ==
    /\ version < MaxVersions /\ version' = version + 1
    /\ device' = 0 /\ last' = 0 /\ codes' = {}
    /\ UNCHANGED <<user, locked, made, now, session, read, change, uses>>

Tick ==
    /\ now < MaxTime \/ locked
    /\ now' \in {now, now + 1} /\ now' <= MaxTime
    /\ locked' = FALSE
    /\ UNCHANGED <<user, version, codes, factor, session, read, change, uses>>

Verify(b) == VerifyExpired(b) \/ VerifyEnrols(b) \/ VerifyToken(b) \/ VerifyRecovery(b) \/ VerifyFails(b)

SignIn(b) == CheckPassword(b) \/ BeginLogin(b) \/ PendingIdentity(b) \/ Restart(b) \/ Verify(b)

Next ==
    \/ \E b \in Browsers :
         \/ SignIn(b) \/ Request(b) \/ MfaExpires(b) \/ ChangeBegins(b) \/ ChangeEnds(b) \/ ChangeFails(b)
    \/ ApplyUserChange \/ RevokeSessions \/ RecoverMfa \/ Tick

Spec == Init /\ [][Next]_vars

----------------------------------------------------------------------------
(* A session whose requests are answered belongs to someone who showed the *)
(* present password and the present authenticator, whatever was changed    *)
(* between the steps of signing in (authentication.py:80-116, 231-240).    *)
LiveSessionsAreFresh ==
    \A b \in Browsers : Live(b) => session[b].proved = password /\ session[b].device = device

(* No code is accepted twice, by whichever browser and for whichever       *)
(* purpose: "Row locks serialize TOTP replay checks and one-use recovery   *)
(* codes." (authentication.py:110).                                        *)
CodesAreUsedOnce == \A t \in DOMAIN uses : uses[t] <= 1
=============================================================================
