-------------------------------- MODULE Startup --------------------------------
(***************************************************************************)
(* A Runner's start, from its process beginning to its first claim:        *)
(* `started` of main.rs, with identity.rs, images.rs and the registration  *)
(* of client.rs.  A start that is refused exits; the container runtime     *)
(* starts it again, and so it does after a crash.                          *)
(***************************************************************************)
EXTENDS Integers

CONSTANTS
    Images,    \* the language images the configuration names
    Operators, \* those an operator named; the rest are published nowhere
    MaxStarts, \* bound: processes
    MaxForgets \* bound: Server restarts, which forget what they only remember

VARIABLES
    at,       \* the step the process is at, or "down"
    key,      \* the key file: 0 is none
    partial,  \* the file beside it that a key is written in
    mine,     \* the key in memory
    made,     \* keys generated so far
    allowed,  \* an operator set AllowUnmeasured
    proven,   \* what this process has been shown
    here,     \* here[i]: image i on the host, "absent", "bare" or "judging"
    rows,     \* keys the Server has a row for
    approved, \* those a person approved
    nonces,   \* keys with a nonce outstanding
    signed,   \* the process holds a nonce to sign
    token,    \* it holds a token
    starts,   \* processes left
    forgets   \* Server restarts left
disk == <<key, partial>>
server == <<rows, approved, nonces>>
startVars == <<at, disk, mine, made, allowed, proven, here, server, signed, token, starts, forgets>>

StartRest ==
    /\ at = "rest" /\ key = 0 /\ partial = 0 /\ mine = 0 /\ made = 0 /\ allowed = FALSE
    /\ proven = {} /\ here = [i \in {} |-> "absent"] /\ rows = {} /\ approved = {} /\ nonces = {}
    /\ signed = FALSE /\ token = FALSE /\ starts = 0 /\ forgets = 0

StartInit ==
    /\ at = "down" /\ key = 0 /\ partial = 0 /\ mine = 0 /\ made = 0
    /\ allowed \in BOOLEAN
    /\ proven = {} /\ here \in [Images -> {"absent", "bare", "judging"}]
    /\ rows = {} /\ approved = {} /\ nonces = {} /\ signed = FALSE /\ token = FALSE
    /\ starts = MaxStarts /\ forgets = MaxForgets

Goto(place) == at' = place
Steps == {"identity", "write", "rename", "width", "preflight", "images", "mount", "sweep",
          "challenge", "register", "approval", "token", "working"}

(* The process begins with nothing but what is on disk.                    *)
Start ==
    /\ at = "down" /\ starts > 0
    /\ starts' = starts - 1
    /\ Goto("identity") /\ mine' = 0 /\ proven' = {} /\ signed' = FALSE /\ token' = FALSE
    /\ UNCHANGED <<disk, made, allowed, here, server, forgets>>

(* Refused or killed, at any step: a restart either way.                   *)
Exit ==
    /\ at \in Steps
    /\ Goto("down")
    /\ UNCHANGED <<disk, mine, made, allowed, proven, here, server, signed, token, starts, forgets>>

(* The key is read, or one is made.                                        *)
LoadOrCreate ==
    /\ at = "identity"
    /\ IF key # 0 THEN Goto("width") /\ mine' = key /\ UNCHANGED made
       ELSE Goto("write") /\ mine' = made + 1 /\ made' = made + 1
    /\ UNCHANGED <<disk, allowed, proven, here, server, signed, token, starts, forgets>>

(* Mutant of WriteKey: under its own name.                                 *)
WriteKeyInPlace ==
    /\ at = "write"
    /\ key' = -mine /\ partial' = mine /\ Goto("rename")
    /\ UNCHANGED <<mine, made, allowed, proven, here, server, signed, token, starts, forgets>>

(* Under a temporary name.                                                 *)
WriteKey ==
    /\ at = "write"
    /\ partial' = mine /\ Goto("rename")
    /\ UNCHANGED <<key, mine, made, allowed, proven, here, server, signed, token, starts, forgets>>

RenameKey ==
    /\ at = "rename"
    /\ key' = partial /\ partial' = 0 /\ Goto("width")
    /\ UNCHANGED <<mine, made, allowed, proven, here, server, signed, token, starts, forgets>>

Prove(step, next, what) ==
    /\ at = step /\ Goto(next)
    /\ proven' = proven \cup {what}
    /\ UNCHANGED <<disk, mine, made, allowed, here, server, signed, token, starts, forgets>>

(* As many lanes as processors, or fewer.                                  *)
WidthFits == Prove("width", "preflight", "width")

(* The host's cgroups can be read; or preflight refused, and an operator   *)
(* said to start all the same.  What is waived is every refusal it makes:  *)
(* with cgroups it cannot measure by, which is all main.rs speaks of, a    *)
(* volume that is not there and a daemon that is too old.                  *)
Preflight == Prove("preflight", "images", "measured")
BelowSpecification == allowed /\ Prove("preflight", "images", "unmeasured")

(* Mutant of Ready: an image that is there is enough.                      *)
ReadyPresent ==
    /\ at = "images" /\ \A i \in Images : here[i] # "absent"
    /\ Prove("images", "mount", "images")

(* An operator's image is asked of the registry, which may answer with     *)
(* another or not at all; one published nowhere never is.                  *)
Pull ==
    /\ at = "images"
    /\ \E i \in Operators : \E got \in {"bare", "judging"} : here' = [here EXCEPT ![i] = got]
    /\ UNCHANGED <<at, disk, mine, made, allowed, proven, server, signed, token, starts, forgets>>

(* Every image is there and carries the shim.                              *)
Ready ==
    /\ at = "images" /\ \A i \in Images : here[i] = "judging"
    /\ Prove("images", "mount", "images")

CanMount == Prove("mount", "sweep", "mount")
Sweep == Prove("sweep", "challenge", "swept")

(* A nonce for a key the Server has a row for; 404 for one it does not.    *)
ServeChallenge(place) ==
    /\ IF mine \in rows
       THEN nonces' = nonces \cup {mine} /\ signed' = TRUE
       ELSE place = "challenge" /\ signed' = FALSE /\ UNCHANGED nonces
    /\ UNCHANGED <<disk, mine, made, allowed, proven, here, rows, approved, token, starts, forgets>>

Challenge == at = "challenge" /\ ServeChallenge("challenge") /\ Goto("register")
ChallengeForToken == at = "approval" /\ ServeChallenge("approval") /\ Goto("token")

(* Registering again is how a restart is reported: signed for a row that is*)
(* there, unsigned for the first.  The nonce is spent by being used.  The  *)
(* answer may be lost, and then all of it is done again.                   *)
Register ==
    /\ at = "register"
    /\ mine \in rows => signed /\ mine \in nonces
    /\ rows' = rows \cup {mine} /\ nonces' = nonces \ {mine} /\ signed' = FALSE
    /\ at' \in {"approval", "challenge"}
    /\ UNCHANGED <<disk, mine, made, allowed, proven, here, approved, token, starts, forgets>>

(* A person has to act.                                                    *)
Approve ==
    /\ \E k \in rows \ approved : approved' = approved \cup {k}
    /\ UNCHANGED <<at, disk, mine, made, allowed, proven, here, rows, nonces, signed, token, starts, forgets>>

(* Sign, token; not approved yet, or lost, is asked again from the start.  *)
Authenticate ==
    /\ at = "token" /\ mine \in nonces
    /\ nonces' = nonces \ {mine} /\ signed' = FALSE
    /\ \/ mine \in approved /\ token' = TRUE /\ Goto("working")
       \/ Goto("approval") /\ UNCHANGED token
    /\ UNCHANGED <<disk, mine, made, allowed, proven, here, rows, approved, starts, forgets>>

(* A Server that restarts keeps its rows.                                  *)
ServerForgets ==
    /\ at \in Steps /\ forgets > 0
    /\ forgets' = forgets - 1 /\ nonces' = {}
    /\ UNCHANGED <<at, disk, mine, made, allowed, proven, here, rows, approved, signed, token, starts>>

(* In the middle of the work: the handshake and nothing before it.         *)
Readmitted ==
    /\ at = "working"
    /\ Goto("challenge") /\ token' = FALSE
    /\ UNCHANGED <<disk, mine, made, allowed, proven, here, server, signed, starts, forgets>>

StartNext ==
    \/ Start \/ Exit
    \/ LoadOrCreate \/ WriteKey \/ RenameKey
    \/ WidthFits \/ Preflight \/ BelowSpecification
    \/ Pull \/ Ready \/ CanMount \/ Sweep
    \/ Challenge \/ ChallengeForToken \/ Register \/ Approve \/ Authenticate
    \/ ServerForgets \/ Readmitted

StartSpec == StartInit /\ [][StartNext]_startVars

-----------------------------------------------------------------------------
(* However often it is cut short, a Runner is one Runner: the Server never *)
(* has a second row, the one it has is the key on disk, and that is no key *)
(* or a whole one (identity.rs, load_or_create).                           *)
OneIdentity ==
    /\ rows \subseteq {key}
    /\ key >= 0
    /\ at \notin {"rest", "down", "identity", "write", "rename"} => mine = key

(* What claims has been shown to be able to judge, and by this process:    *)
(* room for its lanes, cgroups it can read unless an operator waived that, *)
(* every image there with its shim, a cache the daemon can open, and none  *)
(* of its own containers left from before (main.rs, "so nothing is claimed *)
(* that this Runner would fail").                                          *)
NothingClaimedUnproven ==
    at = "working" =>
        /\ {"width", "images", "mount", "swept"} \subseteq proven
        /\ "measured" \in proven \/ (allowed /\ "unmeasured" \in proven)
        /\ \A i \in Images : here[i] = "judging"
        /\ token /\ key \in approved
================================================================================
