---------------------------- MODULE Credentials ----------------------------
(***************************************************************************)
(* The OAuth credentials of one account: those of the app's store          *)
(* (GoogleAuthStore, ExchangeAuthStore), refreshed when a token is asked   *)
(* for, and those of the Android record (SyncVault), refreshed by the      *)
(* background passes.  The settings screen carries them both ways.  An     *)
(* authorization is a number, its refresh tokens are its generations, and  *)
(* an access token is good, old, or none: '' for half an hour.             *)
(***************************************************************************)
EXTENDS Integers

CONSTANTS MaxLogins,  \* bound: authorizations of the account
          MaxGen,     \* bound: refresh tokens that replace the first of an authorization
          MaxSteps    \* bound: refreshes the app asks for, background passes and accounts
                      \* sent to the device, together

VARIABLES kind,     \* "google" or "exchange"
          server,   \* the authorizations made, their last generation, and the refused ones
          account,  \* the account in the reducer
          screen,   \* the account as last rendered
          ref,      \* accountsRef
          asked,    \* refreshes under way in the app
          told,     \* history: the refresh tokens the app was told are refused, since a while
          held,     \* Exchange's lastFailure is less than ten seconds old
          record,   \* the record of SyncVault
          saved,    \* settings.credentialRevisions
          known,    \* that revision as last rendered, together with the account
          import,   \* credentialUpdates under way: its answer, and whether the account was found
          push,     \* configureSync under way: its account and revision
          pass,     \* the credentials the background pass under way has read
          writes,   \* a write of SyncVault that has read the record: what it read, what it writes
          mixed,    \* history: writes of the record overlapped, it was deleted, or its revision was
                    \* stored without its credentials
          steps     \* refreshes, passes and accounts sent so far

vars == <<kind, server, account, screen, ref, asked, told, held, record, saved, known, import, push, pass, writes, mixed, steps>>
app == <<account, screen, ref, asked, told, held>>
device == <<record, pass, writes, mixed>>
settings == <<saved, known, import, push>>

None == [none |-> TRUE]
Tokens == {"good", "old", "none"}
Credential == [login : 1..MaxLogins, gen : 0..MaxGen, token : Tokens]
Record == [c : Credential, rev : Nat]

TypeOK == /\ kind \in {"google", "exchange"}
          /\ {account, screen, ref, pass} \subseteq Credential \cup {None}
          /\ record \in Record \cup {None} /\ push \in Record \cup {None}
          /\ import \in [record : Record, found : BOOLEAN] \cup {None}
          /\ asked \subseteq [login : 1..MaxLogins, gen : 0..MaxGen] /\ {saved, known} \subseteq Nat
          /\ held \in BOOLEAN

Granted(n) == [login |-> n, gen |-> 0, token |-> "good"]

Init == /\ kind \in {"google", "exchange"}
        /\ server = [logins |-> 1, gen |-> [n \in 1..MaxLogins |-> 0], refused |-> {}]
        /\ account = Granted(1) /\ screen = account /\ ref = account
        /\ asked = {} /\ told = {} /\ held = FALSE
        /\ record \in {None, [c |-> Granted(1), rev |-> 0]} /\ saved = 0 /\ known = 0 /\ import = None /\ push = None /\ pass = None
        /\ writes = [w \in {"app", "pass"} |-> None]
        /\ mixed = FALSE
        /\ steps = 0
Step == steps < MaxSteps /\ steps' = steps + 1
-----------------------------------------------------------------------------
\* The authorization servers.
Accepts(r) == r.login \notin server.refused
Refuses(r) == r.login \in server.refused \/ r.gen < server.gen[r.login]
\* The refresh tokens an accepted refresh may leave: Microsoft may replace it.
Replacements(r) ==
  {r.gen} \cup {g \in {server.gen[r.login] + 1} : kind = "exchange" /\ g <= MaxGen}
Issue(r, g) == server' = [server EXCEPT !.gen[r.login] = IF g > @ THEN g ELSE @]

Revoke == /\ server' = [server EXCEPT !.refused = 1..server.logins]
          /\ server' # server
          /\ UNCHANGED <<kind, app, device, settings, steps>>

\* Access tokens, failures and marks grow old.
Aged(c) == IF c = None THEN None ELSE [c EXCEPT !.token = "old"]
AgedRecord(r) == IF r = None THEN None ELSE [r EXCEPT !.c = Aged(@)]
Pass == /\ account' = Aged(account) /\ screen' = Aged(screen) /\ ref' = Aged(ref)
        /\ held' = FALSE /\ told' = {}
        /\ record' = AgedRecord(record)
        /\ <<account', screen', ref', held', record'>> # <<account, screen, ref, held, record>>
        /\ UNCHANGED <<kind, server, asked, settings, pass, writes, mixed, steps>>

\* The account is authorized (again), by the web flow, the native one or the device code.
Connect == /\ server.logins < MaxLogins
           /\ server' = [server EXCEPT !.logins = @ + 1]
           /\ account' = Granted(server'.logins)
           /\ UNCHANGED <<kind, screen, ref, asked, told, held, device, settings, steps>>

Remove == /\ account # None
          /\ account' = None
          /\ UNCHANGED <<kind, server, screen, ref, asked, told, held, device, settings, steps>>

\* React renders the store; Exchange's provider sets accountsRef meanwhile, Google's in an effect.
Render == /\ <<screen, known>> # <<account, saved>>
          /\ screen' = account /\ known' = saved
          /\ ref' = IF kind = "exchange" THEN account ELSE ref
          /\ UNCHANGED <<kind, server, account, asked, told, held, device, saved, import, push, steps>>
Effect == /\ kind = "google" /\ ref # screen
          /\ ref' = screen
          /\ UNCHANGED <<kind, server, account, screen, asked, told, held, device, settings, steps>>
-----------------------------------------------------------------------------
\* getValidToken when it must refresh: no refresh of the account is under way or has just failed.
Waiting == asked # {}
GetValidToken == /\ Step
                 /\ ref # None /\ ref.token = "old" /\ ~Waiting /\ ~held
                 /\ asked' = asked \cup {[login |-> ref.login, gen |-> ref.gen]}
                 /\ UNCHANGED <<kind, server, account, screen, ref, told, held, device, settings>>

Updated(c, token) == IF c = None THEN None ELSE [c EXCEPT !.token = token]
\* The answer carries the new access token; a new refresh token in it is not stored.
Refreshed(r) == /\ Accepts(r)
                /\ \E g \in Replacements(r) : Issue(r, g)
                /\ asked' = asked \ {r} /\ account' = Updated(account, "good")
                /\ UNCHANGED <<kind, screen, ref, told, held, device, settings, steps>>

\* What the caller of the native command reads of a failure, and what makes it permanent.
Message(refused) == IF refused THEN "Google authorization expired" ELSE "provider request failed"
Permanent(message) == message \in {"unauthorized", "invalid_grant", "invalid_client"}
RefreshFails(r) == \E refused \in BOOLEAN :
  /\ refused => Refuses(r)
  /\ asked' = asked \ {r}
  /\ account' = IF kind = "google" /\ Permanent(Message(refused)) THEN Updated(account, "none") ELSE account
  /\ held' = (kind = "exchange" \/ held)
  /\ told' = IF refused THEN told \cup {r} ELSE told
  /\ UNCHANGED <<kind, server, screen, ref, device, settings, steps>>
-----------------------------------------------------------------------------
\* A mode is chosen or the settings are saved: the account on the screen is sent, then stored.
Send == /\ Step /\ push = None /\ screen # None
        /\ push' = [c |-> screen, rev |-> known]
        /\ UNCHANGED <<kind, server, app, device, saved, known, import>>

\* A slip in PutFromPrimary: what the app sends is stored whatever the revisions.
PutAlways(current, incoming) == incoming

PutFromPrimary(current, incoming) ==
  IF current # None /\ current.rev > incoming.rev THEN current ELSE incoming

Writing(w, value) == writes' = [writes EXCEPT ![w] = [seen |-> record, value |-> value]]
ConfigureSync == /\ push # None /\ writes["app"] = None
                 /\ Writing("app", PutFromPrimary(record, push))
                 /\ push' = None
                 /\ UNCHANGED <<kind, server, app, record, pass, mixed, saved, known, import, steps>>

Write(w) == /\ writes[w] # None
            /\ record' = writes[w].value
            /\ writes' = [writes EXCEPT ![w] = None]
            /\ mixed' = (mixed \/ writes[w].seen # record)
            /\ UNCHANGED <<kind, server, app, pass, settings, steps>>

\* The mode "disabled", or the account is gone.
DisableSync == /\ record # None
               /\ record' = None /\ mixed' = TRUE
               /\ UNCHANGED <<kind, server, app, pass, writes, settings, steps>>

\* The settings screen opens: credentialUpdates, then the accounts and revisions are stored.
CredentialUpdates == /\ import = None /\ record # None /\ record.rev > 0
                     /\ import' = [record |-> record, found |-> screen # None]
                     /\ UNCHANGED <<kind, server, app, device, saved, known, push, steps>>
SaveUpdates == /\ import # None
               /\ saved' = import.record.rev
               /\ account' = IF import.found THEN import.record.c ELSE account
               /\ import' = None
               /\ mixed' = (mixed \/ ~import.found)
               /\ UNCHANGED <<kind, server, screen, ref, asked, told, held, record, pass, writes, known, push, steps>>
-----------------------------------------------------------------------------
\* A background pass reads the account, and refreshes its token if it must.
StartPass == /\ Step /\ pass = None /\ writes["pass"] = None /\ record # None
             /\ pass' = record.c
             /\ UNCHANGED <<kind, server, app, record, writes, mixed, settings>>

\* updateCredentials, on what the record is by then.
WithCredentialUpdate(current, c) == [c |-> c, rev |-> current.rev + 1]
UpdateCredentials(c) == IF record = None THEN UNCHANGED writes
                        ELSE Writing("pass", WithCredentialUpdate(record, c))
PassRefreshes == /\ pass # None /\ pass.token = "old" /\ Accepts(pass)
                 /\ \E g \in Replacements(pass) :
                      /\ Issue(pass, g)
                      /\ \/ UpdateCredentials([pass EXCEPT !.gen = g, !.token = "good"])
                         \/ UNCHANGED writes  \* the listing failed after the refresh
                 /\ pass' = None
                 /\ UNCHANGED <<kind, app, record, mixed, settings, steps>>
PassEnds == /\ pass # None
            /\ pass' = None
            /\ UNCHANGED <<kind, server, app, record, writes, mixed, settings, steps>>

Next == \/ Revoke \/ Pass \/ Connect \/ Remove \/ Render \/ Effect
        \/ GetValidToken \/ (\E r \in asked : Refreshed(r) \/ RefreshFails(r))
        \/ Send \/ ConfigureSync \/ (\E w \in {"app", "pass"} : Write(w)) \/ DisableSync
        \/ CredentialUpdates \/ SaveUpdates
        \/ StartPass \/ PassRefreshes \/ PassEnds

Spec == Init /\ [][Next]_vars
-----------------------------------------------------------------------------
\* A refresh token that a background pass received is not replaced on the device
\* by an older one of the same authorization, though the app may know only that
\* one and send it; unless writes of the record overlapped, it had been deleted, or
\* the app had stored its revision without finding the account.
KeepsRotation == \/ mixed'
                 \/ record = None \/ record' = None
                 \/ record'.c.login # record.c.login
                 \/ record'.c.gen >= record.c.gen
RotationKept == [][KeepsRotation]_vars

\* Once told that a refresh token is refused, the app does not send it again
\* for a while (the intent GoogleAuthStore.tsx states where it marks the token).
StopsRetrying == kind = "google" => asked \cap told = {}
=============================================================================
