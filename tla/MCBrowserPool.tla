--------------------------- MODULE MCBrowserPool ---------------------------
(* Requests for TLC. *)
EXTENDS BrowserPool, TLC

CONSTANT k1

Request(policy, key, max) ==
    [ttl |-> 1, readWrite |-> FALSE, fenced |-> TRUE, maxPages |-> max,
     policy |-> policy, key |-> key]

\* Two leases may ask for the same saved session, a profile of their own, or
\* for neither.
MCAsked == {Request("storage-state", k1, 1), Request("persistent-profile", NoKey, 1),
            Request("ephemeral", NoKey, 2)}
MCStored == {Request("storage-state", k1, 1)}

\* Clients that await their calls meet crashes and a shutdown; those that do
\* not, or whose directories fail, do without them.
MCModes == {{"crash", "shutdown"}, {"overlap", "dir_fails"}}
MCOverlapping == {{"overlap"}}
MCQuiet == {{}}

\* Tokens are interchangeable, and so are the calls (and the pages they name).
Interchangeable == Permutations(Token) \cup Permutations(Call)
=============================================================================
