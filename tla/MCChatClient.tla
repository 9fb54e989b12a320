---------------------------- MODULE MCChatClient ----------------------------
(* Everything a user may type in up to MaxLines lines of five kinds. *)
EXTENDS ChatClient

CONSTANT MaxLines

\* Line n: empty, short, "exit", too long for the nickname's array, and too long
\* with a rest that reads "exit".
LineKinds(n) == {<<>>, <<n>>, <<EXIT>>, <<n, -n>>, <<n, EXIT>>}

AllTokens == (1 .. MaxLines) \cup {-n : n \in 1 .. MaxLines} \cup {EXIT, GARBAGE}

AllScripts ==
    UNION {{s \in [1 .. k -> UNION {LineKinds(n) : n \in 1 .. k}] :
                \A n \in 1 .. k : s[n] \in LineKinds(n)} : k \in 0 .. MaxLines}
=============================================================================
