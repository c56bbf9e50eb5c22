---------------------------- MODULE ViewerPromise ----------------------------
(***************************************************************************)
(* What the user of the embedded browser view is promised: one link to the *)
(* UE browser, that is torn down only when the page is paused, the network *)
(* goes or the link itself breaks, and that comes back otherwise.          *)
(***************************************************************************)
VARIABLES stopped,  \* the page is hidden away
          online,   \* the host has a network
          link      \* "none", "trying" or "up"

vars == <<stopped, online, link>>

Init ==
  /\ stopped = TRUE
  /\ online = TRUE
  /\ link = "none"

Pause    == stopped' = TRUE /\ link' = "none" /\ UNCHANGED online
NetGone  == online' = FALSE /\ link' = "none" /\ UNCHANGED stopped
NetBack  == online' = TRUE /\ (link' = "trying" => ~stopped)
            /\ link' # "up" /\ link # "up" /\ UNCHANGED stopped
Wake     == stopped' = FALSE /\ link # "up"
            /\ link' \in {"none", "trying"} /\ (link' = "trying" => online)
            /\ UNCHANGED online
Try      == ~stopped /\ online /\ link = "none"
            /\ link' = "trying" /\ UNCHANGED <<stopped, online>>
Connect  == link = "trying" /\ link' = "up" /\ UNCHANGED <<stopped, online>>
Break    == link # "none" /\ link' = "none" /\ UNCHANGED <<stopped, online>>

Next == Pause \/ NetGone \/ NetBack \/ Wake \/ Try \/ Connect \/ Break

Spec == Init /\ [][Next]_vars
=============================================================================
