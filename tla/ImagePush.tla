------------------------------ MODULE ImagePush -----------------------------
(***************************************************************************)
(* images.Push: the images of a component are copied to the registry under *)
(* two names, through a tunnel that may break.  Two copies of each name    *)
(* are tried in an attempt, and the attempt itself is repeated with a new  *)
(* tunnel and the images that are still missing.                           *)
(***************************************************************************)
EXTENDS Integers, FiniteSets

CONSTANTS
    Image,       \* the component's images, without duplicates
    NoImage,
    PushRetries, \* PushOptions.Retries
    NoChecksum   \* only the name without a checksum is pushed

ASSUME PushAssumption ==
    NoImage \notin Image /\ PushRetries \in Nat \ {0} /\ NoChecksum \in BOOLEAN

VARIABLES
    push,      \* "off", "connect", "copy", "ok" or "failed"
    toPush,    \* the images not pushed by an earlier attempt
    pushed,    \* those pushed by this attempt
    image,     \* the image being pushed
    name,      \* under which name
    copies,    \* copies of this name still allowed in this attempt
    attempt,   \* attempts made
    tunnel,    \* "closed", "open" or "broken"
    registry   \* the (image, name) pairs in the registry

pushVars == <<push, toPush, pushed, image, name, copies, attempt, tunnel, registry>>

Names == IF NoChecksum THEN {"plain"} ELSE {"checksum", "plain"}

PushInit ==
    /\ push = "off" /\ toPush = {} /\ pushed = {} /\ image = NoImage /\ name = "plain"
    /\ copies = 0 /\ attempt = 0 /\ tunnel = "closed" /\ registry = {}

StartPush ==
    /\ push = "off"
    /\ push' = "connect" /\ toPush' = Image /\ attempt' = 0
    /\ UNCHANGED <<pushed, image, name, copies, tunnel, registry>>

\* ConnectToZarfRegistryEndpoint and Tunnel.Connect.
OpenTunnel ==
    /\ push = "connect"
    /\ tunnel' = "open" /\ push' = "copy" /\ pushed' = {} /\ attempt' = attempt + 1
    /\ UNCHANGED <<toPush, image, name, copies, registry>>

\* The deferred Tunnel.Close.
CloseTunnel == "closed"

\* The deferred loop that takes what was pushed off the list.
StillToPush == toPush \ pushed

\* The attempt ends with an error; retry.Do starts another or gives up.
AttemptFails ==
    /\ push' = IF attempt < PushRetries THEN "connect" ELSE "failed"
    /\ tunnel' = CloseTunnel /\ toPush' = StillToPush /\ pushed' = {} /\ image' = NoImage
    /\ UNCHANGED <<name, copies, attempt, registry>>

ConnectFails ==
    /\ push = "connect"
    /\ attempt' = attempt + 1
    /\ push' = IF attempt' < PushRetries THEN "connect" ELSE "failed"
    /\ UNCHANGED <<toPush, pushed, image, name, copies, tunnel, registry>>

\* The loop over the map of images visits them in any order.
PickImage(i) ==
    /\ push = "copy" /\ image = NoImage /\ i \in toPush \ pushed
    /\ image' = i /\ copies' = 2
    /\ name' = IF NoChecksum THEN "plain" ELSE "checksum"
    /\ UNCHANGED <<push, toPush, pushed, attempt, tunnel, registry>>

\* Mutated: an image counts as pushed after its first name.
CopyImageOnce ==
    /\ push = "copy" /\ image # NoImage /\ tunnel = "open"
    /\ registry' = registry \cup {<<image, name>>}
    /\ pushed' = pushed \cup {image} /\ image' = NoImage
    /\ UNCHANGED <<name, copies, push, toPush, attempt, tunnel>>

\* pushImage through Tunnel.Wrap succeeds.
CopyImage ==
    /\ push = "copy" /\ image # NoImage /\ tunnel = "open"
    /\ registry' = registry \cup {<<image, name>>}
    /\ IF name = "checksum"
         THEN name' = "plain" /\ copies' = 2 /\ UNCHANGED <<image, pushed>>
         ELSE pushed' = pushed \cup {image} /\ image' = NoImage /\ UNCHANGED <<name, copies>>
    /\ UNCHANGED <<push, toPush, attempt, tunnel>>

\* pushImage fails; the second failure of a name ends the attempt.
CopyFails ==
    /\ push = "copy" /\ image # NoImage
    /\ \/ copies > 1 /\ copies' = copies - 1
          /\ UNCHANGED <<push, toPush, pushed, image, name, attempt, tunnel, registry>>
       \/ copies = 1 /\ AttemptFails

\* The port forward ends; Wrap and every later copy report it.
TunnelBreaks ==
    /\ tunnel = "open"
    /\ tunnel' = "broken"
    /\ UNCHANGED <<push, toPush, pushed, image, name, copies, attempt, registry>>

\* Push returns, and its variables with it.
PushDone ==
    /\ push = "copy" /\ image = NoImage /\ toPush \subseteq pushed
    /\ push' = "ok" /\ tunnel' = CloseTunnel /\ toPush' = StillToPush
    /\ pushed' = {} /\ name' = "plain" /\ copies' = 0 /\ attempt' = 0
    /\ UNCHANGED <<image, registry>>

PushStep ==
    \/ OpenTunnel \/ CopyImage \/ PushDone
    \/ tunnel = "broken" /\ CopyFails
    \/ \E i \in Image : PickImage(i)
=============================================================================
