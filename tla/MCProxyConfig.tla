---------------------------- MODULE MCProxyConfig ----------------------------
(* Small instances of ProxyConfig for TLC.                                 *)
EXTENDS ProxyConfig

CONSTANTS h1

Case(handlers, slow, faults) ==
  [handlers |-> handlers, slow |-> slow, faults |-> faults]

\* Mutations that take turns; two at a time, with a systemd that does as it
\* likes; and a file that cannot always be written.
Everywhere ==
  {Case({Boot}, FALSE, {"crash"}),
   Case({Boot, h1}, TRUE, {"crash"}),
   Case({Boot, h1}, TRUE, {"crash", "file"})}

\* Two overlapping mutations and nothing that fails.
Overlapping == {Case({Boot, h1}, FALSE, {})}
=============================================================================
