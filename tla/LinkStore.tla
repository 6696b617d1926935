------------------------------ MODULE LinkStore ------------------------------
(***************************************************************************)
(* What the URL shortener promises to the rest of the fleet, whatever      *)
(* happens inside it: a short ID is minted for one destination and keeps   *)
(* it for ever, a client is only ever told a link that was minted, and a   *)
(* visitor is only ever sent to the destination of a minted link.          *)
(*                                                                         *)
(* Links are never deleted or rewritten (the code has no UPDATE and no     *)
(* DELETE), so the promise is about a set of links that only grows.        *)
(***************************************************************************)
CONSTANTS ShortIds,   \* the short IDs the generator can produce
          Urls        \* the destinations a client may ask to shorten

VARIABLES minted,     \* the links that exist, as pairs <<short ID, URL>>
          issued,     \* the links a client has been told of (a 201 answer)
          visited     \* the redirects a visitor has been given (a 302 answer)

linkVars == <<minted, issued, visited>>

LinkSet == ShortIds \X Urls

Init == minted = {} /\ issued = {} /\ visited = {}

\* A link is minted under a short ID no other link has.
Mint(s, u) ==
    /\ \A link \in minted : link[1] # s
    /\ minted' = minted \cup {<<s, u>>}
    /\ UNCHANGED <<issued, visited>>

Issue(link) ==
    /\ link \in minted
    /\ issued' = issued \cup {link}
    /\ UNCHANGED <<minted, visited>>

Visit(link) ==
    /\ link \in minted
    /\ visited' = visited \cup {link}
    /\ UNCHANGED <<minted, issued>>

Next ==
    \/ \E s \in ShortIds, u \in Urls : Mint(s, u)
    \/ \E link \in minted : Issue(link) \/ Visit(link)

Spec == Init /\ [][Next]_linkVars

-----------------------------------------------------------------------------
\* Two links never share a short ID: the function a short URL stands for.
OneUrlPerId == \A a, b \in minted : a[1] = b[1] => a = b

\* Everything said to the outside is about a link that exists.
OnlyMintedIsTold == issued \cup visited \subseteq minted

=============================================================================
