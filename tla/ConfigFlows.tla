---------------------------- MODULE ConfigFlows ----------------------------
(* The three config flows and the entries they write: what a flow checks    *)
(* before it awaits the connection test, and what it writes after it, while *)
(* other flows do the same.  Every write is followed by a setup or a        *)
(* reload, which the core runs one at a time for each entry; the entries    *)
(* share two services.                                                      *)
(*                                                                          *)
(* An address stands for the model of the station there too: a test with    *)
(* another one fails.  A test that fails changes nothing but the form.      *)
EXTENDS Nothing, Integers, FiniteSets

CONSTANTS Addresses,   \* where there are stations
          First,       \* where the one is that is configured already
          Prefixes,    \* the non-empty device prefixes
          MaxEntries,  \* bound: config entries at a time
          MaxFlows,    \* bound: forms submitted and not answered, at a time
          MaxSubmits   \* bound: forms submitted

ASSUME FlowsAssumption ==
  /\ None \notin Addresses \cup Prefixes
  /\ First \in Addresses
  /\ MaxEntries \in Nat /\ MaxFlows \in Nat /\ MaxSubmits \in Nat

VARIABLES
  entries,   \* the data of every config entry
  testing,   \* the flows that await _test_connection
  life,      \* what the core is doing with an entry
  after,     \* what becomes of an entry once it is unloaded
  due,       \* setups and reloads waiting for the setup lock of the entry
  runtime,   \* what the charger of the entry was made with
  services,  \* the services are registered
  submits,   \* history: forms submitted so far
  raced      \* history: which of their checks flows have overtaken

flowVars == <<entries, testing, life, after, due, runtime, services, submits, raced>>

Slots   == 1..MaxEntries
FlowIds == 1..MaxFlows

\* A password is named for the station it opens.
Credentials == [user : BOOLEAN, password : Addresses \cup {None}]

Stored == [ip : Addresses, creds : Credentials, prefix : Prefixes \cup {None}]

ASSUME StoredAssumption == None \notin Stored

Kinds == {"user", "reconfigure", "reauth"}

\* overtaken: history, the flows that have written since this one checked.
Tests == [kind : Kinds, entry : Slots \cup {None}, ip : Addresses, creds : Credentials,
          prefix : Prefixes \cup {None}, overtaken : SUBSET Kinds]

Races == {"address", "prefix", "credentials"}

FlowsTypeOK ==
  /\ entries \in [Slots -> Stored \cup {None}]
  /\ testing \in [FlowIds -> Tests \cup {None}]
  /\ life \in [Slots -> {"unloaded", "setup", "loaded", "unloading", "failed"}]
  /\ after \in [Slots -> {"setup", "removed"}]
  /\ due \in [Slots -> Nat]
  /\ runtime \in [Slots -> Stored \cup {None}]
  /\ services \in BOOLEAN
  /\ submits \in 0..MaxSubmits
  /\ raced \subseteq Races

\* One station is configured, with a prefix and no password, and not loaded yet.
FlowsInit ==
  /\ \E prefix \in Prefixes :
       entries = [e \in Slots |->
                    IF e = 1 THEN [ip |-> First, creds |-> [user |-> FALSE, password |-> None],
                                   prefix |-> prefix]
                    ELSE None]
  /\ due = [e \in Slots |-> IF e = 1 THEN 1 ELSE 0]
  /\ testing = [f \in FlowIds |-> None]
  /\ life = [e \in Slots |-> "unloaded"] /\ after = [e \in Slots |-> "setup"]
  /\ runtime = [e \in Slots |-> None]
  /\ services = FALSE
  /\ submits = 0 /\ raced = {}

-----------------------------------------------------------------------------
(* A form is submitted: up to the await.                                     *)

Configured == {e \in Slots : entries[e] # None}

\* _test_connection: the station is there, and if a user name is given it takes
\* the password.
Accepted(ip, creds) == creds.user => creds.password = ip

Submit(f, test) ==
  /\ testing[f] = None /\ \A g \in 1..(f - 1) : testing[g] # None
  /\ submits < MaxSubmits /\ submits' = submits + 1
  /\ Accepted(test.ip, test.creds)
  /\ testing' = [testing EXCEPT ![f] = test]
  /\ UNCHANGED <<entries, life, after, due, runtime, services, raced>>

\* Plausible bug: nobody looks at the prefixes of the other entries.
PrefixFreeAlways(prefix) == TRUE

PrefixFree(prefix) == prefix = None \/ \A e \in Configured : entries[e].prefix # prefix

\* What is typed into a form: nothing, or a user and a password.  With a user
\* already there the password field may stay empty.
Typed == {[user |-> FALSE, password |-> None]} \cup [user : {TRUE}, password : Addresses]

SubmitUser(f, ip, creds, prefix) ==
  /\ PrefixFree(prefix)
  /\ Submit(f, [kind |-> "user", entry |-> None, ip |-> ip, creds |-> creds,
                prefix |-> prefix, overtaken |-> {}])

\* An empty password field keeps the stored password.
SubmitReconfigure(f, e, ip, typed) ==
  /\ e \in Configured
  /\ \A o \in Configured \ {e} : entries[o].ip # ip
  /\ LET password == IF typed.password = None THEN entries[e].creds.password
                     ELSE typed.password
     IN Submit(f, [kind |-> "reconfigure", entry |-> e, ip |-> ip,
                   creds |-> [user |-> typed.user, password |-> password],
                   prefix |-> None, overtaken |-> {}])

\* The address, and the model, are those of the entry now.
SubmitReauth(f, e, creds) ==
  /\ e \in Configured
  /\ Submit(f, [kind |-> "reauth", entry |-> e, ip |-> entries[e].ip, creds |-> creds,
                prefix |-> None, overtaken |-> {}])

-----------------------------------------------------------------------------
(* The test returns: the rest of the step.                                   *)

\* Flow f is done with having written; the others have been overtaken by it.
Wrote(f) ==
  testing' = [g \in FlowIds |->
                IF g = f \/ testing[g] = None THEN None
                ELSE [testing[g] EXCEPT !.overtaken = @ \cup {testing[f].kind}]]

RacedIf(condition, check) == raced' = IF condition THEN raced \cup {check} ELSE raced

\* Plausible bug: the address is not looked up again after the test.
AddressTakenNever(ip) == FALSE

\* _abort_if_unique_id_configured
AddressTaken(ip) == \E e \in Configured : entries[e].ip = ip

UserAborts(f) ==
  /\ testing[f] # None /\ testing[f].kind = "user"
  /\ AddressTaken(testing[f].ip)
  /\ testing' = [testing EXCEPT ![f] = None]
  /\ UNCHANGED <<entries, life, after, due, runtime, services, submits, raced>>

UserCreates(f) ==
  LET test == testing[f]
  IN /\ test # None /\ test.kind = "user"
     /\ ~AddressTaken(test.ip)
     /\ \E e \in Slots \ Configured :
          /\ \A o \in 1..(e - 1) : o \in Configured
          /\ entries' = [entries EXCEPT ![e] = [ip |-> test.ip, creds |-> test.creds,
                                                prefix |-> test.prefix]]
          /\ due' = [due EXCEPT ![e] = 1]
     /\ Wrote(f)
     /\ RacedIf("user" \in test.overtaken, "prefix")
     /\ UNCHANGED <<life, after, runtime, services, submits>>

\* Plausible bug: the entry is not loaded again.
RewriteQuietly(f, data) ==
  /\ entries' = [entries EXCEPT ![testing[f].entry] = data]
  /\ Wrote(f)
  /\ UNCHANGED <<life, after, due, runtime, services, submits>>

\* async_update_entry and async_reload.
Rewrite(f, data) ==
  /\ entries' = [entries EXCEPT ![testing[f].entry] = data]
  /\ due' = [due EXCEPT ![testing[f].entry] = @ + 1]
  /\ Wrote(f)
  /\ UNCHANGED <<life, after, runtime, services, submits>>

\* The prefix is the one the entry has now.
ReconfigureReturns(f) ==
  LET test == testing[f]
  IN /\ test # None /\ test.kind = "reconfigure"
     /\ Rewrite(f, [ip |-> test.ip, creds |-> test.creds, prefix |-> entries[test.entry].prefix])
     /\ RacedIf(test.overtaken \cap {"user", "reconfigure"} # {}, "address")

\* ... and so is the address.
ReauthReturns(f) ==
  LET test == testing[f]
  IN /\ test # None /\ test.kind = "reauth"
     /\ Rewrite(f, [entries[test.entry] EXCEPT !.creds = test.creds])
     /\ RacedIf("reconfigure" \in test.overtaken, "credentials")

-----------------------------------------------------------------------------
(* The core loads and unloads entries.                                       *)

\* async_setup_entry reads the data and awaits the first poll and the platforms.
SetupBegins(e) ==
  /\ life[e] = "unloaded" /\ due[e] > 0
  /\ due' = [due EXCEPT ![e] = @ - 1]
  /\ life' = [life EXCEPT ![e] = "setup"]
  /\ runtime' = [runtime EXCEPT ![e] = entries[e]]
  /\ UNCHANGED <<entries, testing, after, services, submits, raced>>

SetupReturns(e) ==
  /\ life[e] = "setup"
  /\ services' = TRUE
  /\ life' = [life EXCEPT ![e] = "loaded"]
  /\ UNCHANGED <<entries, testing, after, due, runtime, submits, raced>>

UnloadBegins(e, then) ==
  /\ life[e] = "loaded"
  /\ life' = [life EXCEPT ![e] = "unloading"]
  /\ after' = [after EXCEPT ![e] = then]
  /\ UNCHANGED <<entries, testing, runtime, services, submits, raced>>

ReloadBegins(e) ==
  /\ due[e] > 0 /\ due' = [due EXCEPT ![e] = @ - 1]
  /\ UnloadBegins(e, "setup")

\* The user removes an entry.
Remove(e) == due[e] = 0 /\ UnloadBegins(e, "removed") /\ UNCHANGED due

\* Plausible bug: the other entries count, loaded or not.
RemainingConfigured(e, unloading) == Configured \ {e}

\* async_loaded_entries; whether an entry counts while it is being unloaded
\* depends on the version of the core.
Remaining(e, unloading) ==
  {o \in Slots \ {e} : life[o] = "loaded" \/ (unloading /\ life[o] = "unloading")}

\* The platforms are unloaded: the rest of async_unload_entry, and what the
\* core does next under the same lock.  Removing an entry aborts its flows.
UnloadReturns(e) ==
  /\ life[e] = "unloading"
  /\ \E unloading \in BOOLEAN : services' = (services /\ Remaining(e, unloading) # {})
  /\ life' = [life EXCEPT ![e] = IF after[e] = "setup" THEN "setup" ELSE "unloaded"]
  /\ runtime' = [runtime EXCEPT ![e] = IF after[e] = "setup" THEN entries[e] ELSE None]
  /\ IF after[e] = "removed"
     THEN /\ entries' = [entries EXCEPT ![e] = None]
          /\ due' = [due EXCEPT ![e] = 0]
          /\ testing' = [f \in FlowIds |-> IF testing[f] # None /\ testing[f].entry = e
                                           THEN None ELSE testing[f]]
     ELSE UNCHANGED <<entries, due, testing>>
  /\ after' = [after EXCEPT ![e] = "setup"]
  /\ UNCHANGED <<submits, raced>>

\* A platform refuses: the entry stays as it is for good.
UnloadFails(e) ==
  /\ life[e] = "unloading"
  /\ life' = [life EXCEPT ![e] = "failed"]
  /\ UNCHANGED <<entries, testing, after, due, runtime, services, submits, raced>>

FlowsNext ==
  \/ \E f \in FlowIds :
       \/ \E ip \in Addresses, creds \in Typed, prefix \in Prefixes \cup {None} :
            SubmitUser(f, ip, creds, prefix)
       \/ \E e \in Slots, ip \in Addresses, typed \in Typed \cup [user : {TRUE}, password : {None}] :
            SubmitReconfigure(f, e, ip, typed)
       \/ \E e \in Slots, creds \in Typed : SubmitReauth(f, e, creds)
       \/ UserAborts(f) \/ UserCreates(f) \/ ReconfigureReturns(f) \/ ReauthReturns(f)
  \/ \E e \in Slots :
       \/ SetupBegins(e) \/ SetupReturns(e) \/ ReloadBegins(e)
       \/ Remove(e) \/ UnloadReturns(e) \/ UnloadFails(e)

FlowsSpec == FlowsInit /\ [][FlowsNext]_flowVars

-----------------------------------------------------------------------------
\* No two entries for one station and no two with one prefix, whatever flows
\* run side by side -- except that a reconfiguration looks for its address, and
\* a new entry for its prefix, before the test only: a flow that writes one
\* during that test is overlooked.
EntriesDistinct ==
  \A e, o \in Configured :
    e # o =>
      /\ "address" \notin raced => entries[e].ip # entries[o].ip
      /\ "prefix" \notin raced /\ entries[e].prefix # None =>
           entries[e].prefix # entries[o].prefix

\* A loaded entry nobody is about to reload runs with what is stored, whenever
\* during a setup or an unload that was written; and what is stored has passed
\* the test as a whole, unless a reconfiguration moved the entry while new
\* credentials were tested at the old address.
RunsWhatWasTested ==
  \A e \in Slots :
    /\ life[e] = "loaded" /\ due[e] = 0 => runtime[e] = entries[e]
    /\ entries[e] # None /\ "credentials" \notin raced =>
         Accepted(entries[e].ip, entries[e].creds)

\* The services are there as long as an entry is loaded, and go with the last
\* one: in whatever order entries are set up, reloaded and unloaded.
ServicesFollowEntries ==
  /\ (\E e \in Slots : life[e] = "loaded") => services
  /\ services => \E e \in Slots : life[e] \in {"loaded", "unloading", "failed"}
=============================================================================
