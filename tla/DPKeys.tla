------------------------------- MODULE DPKeys --------------------------------
(***************************************************************************)
(* The data-protection key ring: the keys session cookies are encoded with.*)
(* Every instance reads the ring from the database once, at boot, and keeps*)
(* that copy until it stops; the rotate-dp-keys command works on the table.*)
(***************************************************************************)
EXTENDS Processes

CONSTANT RingKeys  \* key ids that can be generated

ASSUME NoneIsNoKey == None \notin RingKeys

VARIABLES
    ringRow,  \* data_protection_keys: the IsActive flag of every key
    boot,     \* where an instance is: down, booting or serving
    active,   \* the key an instance signs with (the first codec)
    ring,     \* the keys an instance decodes with (all codecs)
    rotate,   \* where a rotate-dp-keys command is
    cookies   \* session cookies in browsers: the keys they are encoded with

ringVars == <<ringRow, boot, active, ring, rotate, cookies>>

BootSteps == {"down", "bootstrap", "load", "up"}

\* The step of a rotate-dp-keys command, and the key it read as active.
RotateState == [step : {"idle", "retire", "generate"}, key : RingKeys \cup {None}]
AtRest == [step |-> "idle", key |-> None]

RingTypeOK ==
    /\ ringRow \in [RingKeys -> {"absent", "active", "retired"}]
    /\ boot \in [Instances -> BootSteps]
    /\ active \in [Instances -> RingKeys \cup {None}]
    /\ ring \in [Instances -> SUBSET RingKeys]
    /\ rotate \in [Commands -> RotateState]
    /\ cookies \subseteq RingKeys

RingStored == {k \in RingKeys : ringRow[k] # "absent"}
RingActive == {k \in RingKeys : ringRow[k] = "active"}

RingInit ==
    /\ ringRow = [k \in RingKeys |-> "absent"]
    /\ boot = [i \in Instances |-> "down"]
    /\ active = [i \in Instances |-> None]
    /\ ring = [i \in Instances |-> {}]
    /\ rotate = [c \in Commands |-> AtRest]
    /\ cookies = {}

-----------------------------------------------------------------------------
(* DPKeyManager.Keyset at boot, and NewCookieManagerFromKeys. *)

\* EnsureActiveKey: GetActive, or go on to generateActive.
BootRead(i) ==
    /\ boot[i] = "down"
    /\ \/ \E k \in RingActive :
            /\ active' = [active EXCEPT ![i] = k]
            /\ boot' = [boot EXCEPT ![i] = "load"]
       \/ /\ RingActive = {}
          /\ boot' = [boot EXCEPT ![i] = "bootstrap"]
          /\ UNCHANGED active
    /\ UNCHANGED <<ringRow, ring, rotate, cookies>>

\* Mutant: the fresh key is used but not stored.
BootStoreNothing(i, k) ==
    /\ boot[i] = "bootstrap"
    /\ ringRow[k] = "absent"
    /\ active' = [active EXCEPT ![i] = k]
    /\ boot' = [boot EXCEPT ![i] = "load"]
    /\ UNCHANGED <<ringRow, ring, rotate, cookies>>

BootStore(i, k) ==
    /\ boot[i] = "bootstrap"
    /\ ringRow[k] = "absent"
    /\ ringRow' = [ringRow EXCEPT ![k] = "active"]
    /\ active' = [active EXCEPT ![i] = k]
    /\ boot' = [boot EXCEPT ![i] = "load"]
    /\ UNCHANGED <<ring, rotate, cookies>>

\* Mutant: retired keys are left out of the ring.
BootLoadActive(i) ==
    /\ boot[i] = "load"
    /\ ring' = [ring EXCEPT ![i] = RingActive \cup {active[i]}]
    /\ boot' = [boot EXCEPT ![i] = "up"]
    /\ UNCHANGED <<ringRow, active, rotate, cookies>>

\* GetAll: the ring is the active key followed by every other row.
BootLoad(i) ==
    /\ boot[i] = "load"
    /\ ring' = [ring EXCEPT ![i] = RingStored \cup {active[i]}]
    /\ boot' = [boot EXCEPT ![i] = "up"]
    /\ UNCHANGED <<ringRow, active, rotate, cookies>>

\* The process stops, by a deploy or a crash, also half way through its boot.
Stop(i) ==
    /\ boot[i] # "down"
    /\ boot' = [boot EXCEPT ![i] = "down"]
    /\ active' = [active EXCEPT ![i] = None]
    /\ ring' = [ring EXCEPT ![i] = {}]
    /\ UNCHANGED <<ringRow, rotate, cookies>>

\* A login on instance i: SetCookie encodes with the first codec.
SetCookie(i) ==
    /\ boot[i] = "up"
    /\ cookies' = cookies \cup {active[i]}
    /\ UNCHANGED <<ringRow, boot, active, ring, rotate>>

-----------------------------------------------------------------------------
(* DPKeyManager.Rotate: retire first, then generate. *)

\* GetActive; with nothing to retire, straight on to generateActive.
RingRead(c) ==
    /\ rotate[c].step = "idle"
    /\ \/ \E k \in RingActive :
            rotate' = [rotate EXCEPT ![c] = [step |-> "retire", key |-> k]]
       \/ /\ RingActive = {}
          /\ rotate' = [rotate EXCEPT ![c] = [step |-> "generate", key |-> None]]
    /\ UNCHANGED <<ringRow, boot, active, ring, cookies>>

\* Store of the copy just read, with IsActive = false.
RingRetire(c) ==
    /\ rotate[c].step = "retire"
    /\ ringRow' = [ringRow EXCEPT ![rotate[c].key] = "retired"]
    /\ rotate' = [rotate EXCEPT ![c] = [step |-> "generate", key |-> None]]
    /\ UNCHANGED <<boot, active, ring, cookies>>

RingStore(c, k) ==
    /\ rotate[c].step = "generate"
    /\ ringRow[k] = "absent"
    /\ ringRow' = [ringRow EXCEPT ![k] = "active"]
    /\ rotate' = [rotate EXCEPT ![c] = AtRest]
    /\ UNCHANGED <<boot, active, ring, cookies>>

\* A statement of the command fails, or it dies between its two writes.
RingDies(c) ==
    /\ rotate[c].step # "idle"
    /\ rotate' = [rotate EXCEPT ![c] = AtRest]
    /\ UNCHANGED <<ringRow, boot, active, ring, cookies>>

RingNext ==
    \/ \E i \in Instances :
         \/ BootRead(i)
         \/ \E k \in RingKeys : BootStore(i, k)
         \/ BootLoad(i)
         \/ Stop(i)
         \/ SetCookie(i)
    \/ \E c \in Commands :
         \/ RingRead(c)
         \/ RingRetire(c)
         \/ \E k \in RingKeys : RingStore(c, k)
         \/ RingDies(c)

RingSpec == RingInit /\ [][RingNext]_ringVars

-----------------------------------------------------------------------------
(* Properties. *)

\* FromRequest: instance i can decode a cookie encoded under key k.
Decodes(i, k) == k \in ring[i]

\* "durable across restarts": whatever cookies were handed out, by whichever
\* instance, under keys since retired, before or between the writes of a
\* rotation that died, an instance that comes up decodes all of them.
RestartDecodesAll ==
    [][\A i \in Instances :
         boot[i] # "up" /\ boot'[i] = "up" => cookies \subseteq ring'[i]]_ringVars

\* An instance only signs with a key that has a row (Keyset): also when it had
\* to generate the key itself, and when rotations run beside its boot.
SignsWithStoredKey ==
    \A i \in Instances :
        boot[i] \in {"load", "up"} => active[i] \in RingStored

\* "validate across the whole fleet": every serving instance decodes every
\* cookie.
FleetDecodes ==
    \A i \in Instances, k \in cookies : boot[i] = "up" => Decodes(i, k)

\* The strengthening of the above.
RingInv ==
    /\ RingTypeOK
    /\ SignsWithStoredKey
    /\ cookies \subseteq RingStored
    /\ \A c \in Commands : rotate[c].step = "retire" => rotate[c].key \in RingStored
=============================================================================
