---------------------------- MODULE MCA2aHandoff ----------------------------
\* Tokens and symmetry for model checking A2aHandoff.
EXTENDS A2aHandoff, TLC

Jwt(jti, exp, genuine, mtls, etag) ==
    [jti |-> jti, iat |-> 0, exp |-> exp, sound |-> TRUE, genuine |-> genuine,
     mtls |-> mtls, etag |-> etag]

\* two genuine tokens of different cards, one bound to the TLS certificate, a
\* forged one that names the jti of the first, and one with a life too long
MCTokens == {Jwt("j1", 3, TRUE, FALSE, 1), Jwt("j2", 4, TRUE, TRUE, 2),
             Jwt("j1", 4, FALSE, FALSE, 1), Jwt("j3", 9, TRUE, FALSE, 1)}

\* the configurations server.ts and the tests use
MCOptions ==
    [auth : {"bearer"}, drift : {FALSE}, hook : {TRUE}, auto : 0..1, junk : {FALSE}]
    \cup [auth : {"bearer"}, drift : {FALSE}, hook : {FALSE}, auto : {2}, junk : BOOLEAN]
    \cup [auth : {"jwt"}, drift : BOOLEAN, hook : {FALSE}, auto : {0}, junk : {FALSE}]

Symmetry == Permutations(Callers) \cup Permutations(Contents)
=============================================================================
