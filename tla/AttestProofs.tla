---------------------------- MODULE AttestProofs ----------------------------
(***************************************************************************)
(* The token a realm receives is the one it asked for: TokenExact, for     *)
(* every length of the token, the platform token and the page, every       *)
(* number of signing iterations and every sequence of calls.               *)
(*                                                                         *)
(* TokenExact is not inductive: it says nothing of the context in the REC, *)
(* from which the next bytes come.  What it lacks is how the fields of the *)
(* context belong together (CtxOK): a context that signs or is signed      *)
(* holds the token of the last INIT and nothing of it has been copied; one *)
(* that is copied from has as many bytes copied as the realm received and  *)
(* the rest to go; and any other has no signed token, so that the call     *)
(* ends with an error.                                                     *)
(***************************************************************************)
EXTENDS Attest, SequenceTheorems, TLAPS

Byte(i) == [tok |-> want, at |-> i, plat |-> PlatLen]

\* A sequence of the first n bytes of the token that is wanted.
GotOK == got \in Seq({Byte(i) : i \in Nat}) /\ \A i \in DOMAIN got : got[i] = Byte(i)

BootOK ==
  /\ boot \in [stage : {"prng", "psa", "key", "token", "ok", "failed"}, plat : Nat]
  /\ boot.stage = "ok" => boot.plat = PlatLen

CtxFields == {"state", "payload", "left", "realm_token_len", "cca_token_len", "copied_len", "cca_token"}

CtxTypes ==
  /\ DOMAIN att = CtxFields
  /\ att.state \in {"NOT_STARTED", "INIT", "SIGN", "CREATE"} /\ att.realm_token_len \in {0, 1}
  /\ att.cca_token_len \in Nat /\ att.copied_len \in Nat

\* Nothing is copied before the token is signed.
Fresh == att.payload = want /\ want # NoToken /\ got = <<>> /\ att.copied_len = 0

CtxOK ==
  /\ att.state = "SIGN" => Fresh /\ att.realm_token_len = 0 /\ answer # "SUCCESS"
  /\ att.state = "CREATE" => Fresh /\ att.realm_token_len = 1 /\ answer # "SUCCESS"
  /\ att.state = "INIT" => att.realm_token_len = 0
  /\ att.state # "NOT_STARTED" => boot.stage = "ok"
  /\ att.state = "NOT_STARTED" /\ att.realm_token_len = 1 =>
       /\ att.cca_token = want /\ want # NoToken /\ boot.stage = "ok" /\ answer # "SUCCESS"
       /\ att.copied_len = Len(got) /\ got # <<>>
       /\ Len(got) + att.cca_token_len = TokenLen /\ att.cca_token_len # 0
  /\ att.state \in {"NOT_STARTED", "INIT"} /\ att.realm_token_len = 0 =>
       /\ answer # "INCOMPLETE"
       /\ got # <<>> => Len(got) = TokenLen /\ want # NoToken
       /\ answer = "SUCCESS" => Len(got) = TokenLen

CallOK ==
  /\ call \in [pc : {"idle", "sign", "write"}, offset : Nat, size : Nat]
  /\ call.offset + call.size <= Granule
  /\ call.pc = "sign" => att.realm_token_len = 0
  /\ call.pc = "write" => att.realm_token_len = 1

TokenInv == GotOK /\ BootOK /\ CtxTypes /\ CtxOK /\ CallOK /\ top \in Nat /\ top <= Granule

-----------------------------------------------------------------------------
\* The arguments that pass the checks name a range inside of the page: the sum cannot wrap
\* and still be as large as the offset.
LEMMA ArgsInPage ==
  ASSUME NEW o \in Offsets, NEW s \in Lengths, NEW v, ContinueArgsValid(v, o, s)
  PROVE  o \in Nat /\ s \in Nat /\ o + s <= Granule
<1> DEFINE W == 2 ^ RegWidth
<1>1. W \in Nat \ {0} /\ o \in 0..(W - 1) /\ s \in 0..(W - 1) /\ Granule \in Nat
  BY TokenAssumption
<1>2. (o + s) % W <= Granule /\ (o + s) % W >= o
  BY DEF ContinueArgsValid, Add
<1> HIDE DEF W
<1>3. CASE o + s < W
  <2>1. (o + s) % W = o + s
    BY <1>1, <1>3
  <2> QED BY <1>1, <1>2, <2>1
<1>4. CASE o + s >= W
  <2>1. (o + s) % W = o + s - W
    BY <1>1, <1>4
  <2> QED BY <1>1, <1>2, <2>1
<1> QED BY <1>1, <1>3, <1>4

LEMMA TokenInit ==
  ASSUME AttestInit
  PROVE  TokenInv
<1>1. GotOK
  BY DEF AttestInit, GotOK
<1>2. BootOK
  BY DEF AttestInit, BootOK
<1>3. CtxTypes /\ CtxOK
  BY DEF AttestInit, NewCtx, CtxTypes, CtxFields, CtxOK
<1>4. CallOK /\ top \in Nat /\ top <= Granule
  BY TokenAssumption DEF AttestInit, Idle, CallOK
<1> QED BY <1>1, <1>2, <1>3, <1>4 DEF TokenInv

\* The bytes a copy appends continue the sequence.
LEMMA CopyContinues ==
  ASSUME GotOK, NEW n \in Nat, boot.plat = PlatLen
  PROVE  /\ got \o Bytes(want, Len(got), n) \in Seq({Byte(i) : i \in Nat})
         /\ Len(got \o Bytes(want, Len(got), n)) = Len(got) + n
         /\ \A i \in DOMAIN (got \o Bytes(want, Len(got), n)) :
               (got \o Bytes(want, Len(got), n))[i] = Byte(i)
<1> DEFINE B == Bytes(want, Len(got), n)
           S == {Byte(i) : i \in Nat}
<1>1. got \in Seq(S) /\ Len(got) \in Nat /\ DOMAIN got = 1..Len(got) /\ \A i \in DOMAIN got : got[i] = Byte(i)
  BY DEF GotOK
<1>2. \A i \in 1..n : B[i] = Byte(Len(got) + i)
  BY DEF Bytes, Byte
<1>3. B \in [1..n -> S]
  <2>1. B = [i \in 1..n |-> B[i]]
    BY DEF Bytes
  <2>2. \A i \in 1..n : B[i] \in S
    BY <1>1, <1>2
  <2> QED BY <2>1, <2>2
<1>4. B \in Seq(S) /\ Len(B) = n
  BY <1>3
<1> HIDE DEF B, S
<1>5. /\ got \o B \in Seq(S) /\ Len(got \o B) = Len(got) + n
      /\ \A i \in 1..(Len(got) + n) : (got \o B)[i] = IF i <= Len(got) THEN got[i] ELSE B[i - Len(got)]
  BY <1>1, <1>4
<1>6. DOMAIN (got \o B) = 1..(Len(got) + n)
  BY <1>5
<1>7. ASSUME NEW i \in 1..(Len(got) + n)
      PROVE  (got \o B)[i] = Byte(i)
  <2>1. CASE i <= Len(got)
    BY <1>1, <1>5, <2>1
  <2>2. CASE ~(i <= Len(got))
    <3>1. i - Len(got) \in 1..n /\ Len(got) + (i - Len(got)) = i
      BY <1>1, <2>2
    <3>2. B[i - Len(got)] = Byte(Len(got) + (i - Len(got)))
      BY <1>2, <3>1
    <3> QED BY <1>5, <2>2, <3>1, <3>2
  <2> QED BY <2>1, <2>2
<1> QED BY <1>5, <1>6, <1>7 DEF B, S

-----------------------------------------------------------------------------
\* Boot, measurements and the host's buffer do not touch the token.
LEMMA AsideKeeps ==
  ASSUME TokenInv, BootOK', boot.stage = "ok" => boot' = boot,
         UNCHANGED <<att, call, want, got, top, answer>>
  PROVE  TokenInv'
<1>1. (boot.stage = "ok") => (boot'.stage = "ok")
  OBVIOUS
<1>2. GotOK' /\ CtxTypes' /\ CallOK' /\ (top \in Nat /\ top <= Granule)'
  BY DEF TokenInv, GotOK, Byte, CtxTypes, CallOK
<1>3. CtxOK'
  BY <1>1 DEF TokenInv, CtxOK, Fresh
<1> QED BY <1>2, <1>3 DEF TokenInv

LEMMA BootKeeps ==
  ASSUME TokenInv, attestation_init \/ \E n \in 0..PlatLen, ok \in BOOLEAN : attest_setup_platform_token(n, ok)
  PROVE  TokenInv'
<1>0. PlatLen \in Nat /\ BootOK
  BY TokenAssumption DEF TokenInv
<1>1. CASE attestation_init
  <2>1. boot.stage \in {"prng", "psa", "key"} /\ \E t \in {"psa", "key", "token", "failed"} : boot' = [boot EXCEPT !.stage = t]
    BY <1>1 DEF attestation_init, attest_rnd_prng_init, psa_crypto_init, attest_init_realm_attestation_key, BootStage
  <2>2. BootOK' /\ boot.stage # "ok"
    BY <1>0, <2>1 DEF BootOK
  <2> QED BY <1>1, <2>2, AsideKeeps DEF attestation_init
<1>2. ASSUME NEW n \in 0..PlatLen, NEW ok \in BOOLEAN, attest_setup_platform_token(n, ok)
      PROVE  TokenInv'
  <2>1. boot.stage = "token" /\ boot.plat + n <= PlatLen
    BY <1>2 DEF attest_setup_platform_token
  <2>2. CASE ~ok \/ PlatLen > PlatSize
    <3>1. boot' = [boot EXCEPT !.stage = "failed"]
      BY <1>2, <2>2 DEF attest_setup_platform_token
    <3>2. BootOK'
      BY <1>0, <3>1 DEF BootOK
    <3> QED BY <1>2, <2>1, <3>2, AsideKeeps DEF attest_setup_platform_token
  <2>3. CASE ~(~ok \/ PlatLen > PlatSize)
    <3>1. boot' = [plat |-> boot.plat + n, stage |-> IF boot.plat + n = PlatLen THEN "ok" ELSE "token"]
      BY <1>2, <2>3 DEF attest_setup_platform_token
    <3>2. BootOK'
      BY <1>0, <3>1 DEF BootOK
    <3> QED BY <1>2, <2>1, <3>2, AsideKeeps DEF attest_setup_platform_token
  <2> QED BY <2>2, <2>3
<1> QED BY <1>1, <1>2

\* RSI_ATTEST_TOKEN_INIT begins a token whatever the context was left in.
LEMMA InitKeeps ==
  ASSUME TokenInv, NEW ch \in Challenges, NEW ok \in BOOLEAN, handle_rsi_attest_token_init(ch, ok)
  PROVE  TokenInv'
<1> DEFINE a == attest_token_ctx_init(ResetLengths(att))
           tok == [ch |-> ch, meas |-> <<meas[0], meas[1]>>]
<1>0. BootOK /\ CtxTypes /\ CtxOK /\ CallOK
  BY DEF TokenInv
<1>1. /\ DOMAIN a = CtxFields /\ a.realm_token_len = 0 /\ a.cca_token_len = 0 /\ a.copied_len = 0
      /\ a.state \in {"INIT", "NOT_STARTED"}
      /\ a.state = "INIT" => boot.stage = "ok"
  BY <1>0 DEF attest_token_ctx_init, ResetLengths, CtxTypes, CtxFields, CtxOK
<1>2. /\ call.pc = "idle" /\ got' = <<>> /\ top' = 0 /\ UNCHANGED <<boot, call>>
      /\ IF a.state = "INIT" /\ ok
         THEN att' = attest_realm_token_create(a, tok) /\ want' = tok /\ answer' = "SUCCESS_INIT"
         ELSE att' = a /\ want' = NoToken /\ answer' = "ERROR_UNKNOWN"
  BY DEF handle_rsi_attest_token_init
<1>3. tok # NoToken
  <2>1. tok.meas = <<meas[0], meas[1]>> /\ NoToken.meas = <<>>
    BY DEF NoToken
  <2>2. <<meas[0], meas[1]>> # <<>>
    OBVIOUS
  <2> QED BY <2>1, <2>2
<1> HIDE DEF a, tok
<1>4. GotOK' /\ BootOK' /\ CallOK' /\ (top \in Nat /\ top <= Granule)'
  BY <1>0, <1>2, TokenAssumption DEF GotOK, BootOK, CallOK
<1>5. CASE a.state = "INIT" /\ ok
  <2>1. att' = [a EXCEPT !.state = "SIGN", !.payload = tok, !.left = SignRounds] /\ want' = tok /\ answer' = "SUCCESS_INIT"
    BY <1>2, <1>5 DEF attest_realm_token_create
  <2>2. CtxTypes' /\ CtxOK'
    BY <1>1, <1>2, <1>3, <1>5, <2>1 DEF CtxTypes, CtxFields, CtxOK, Fresh
  <2> QED BY <1>4, <2>2 DEF TokenInv
<1>6. CASE ~(a.state = "INIT" /\ ok)
  <2>1. att' = a /\ want' = NoToken /\ answer' = "ERROR_UNKNOWN"
    BY <1>2, <1>6
  <2>2. CtxTypes' /\ CtxOK'
    BY <1>1, <1>2, <2>1 DEF CtxTypes, CtxFields, CtxOK, Fresh
  <2> QED BY <1>4, <2>2 DEF TokenInv
<1> QED BY <1>5, <1>6

\* RSI_ATTEST_TOKEN_CONTINUE up to the loop.
LEMMA ContinueKeeps ==
  ASSUME TokenInv, NEW v \in BOOLEAN, NEW o \in Offsets, NEW s \in Lengths,
         handle_rsi_attest_token_continue(v, o, s)
  PROVE  TokenInv'
<1>0. GotOK /\ BootOK /\ CtxTypes /\ CtxOK /\ CallOK /\ top \in Nat /\ top <= Granule
  BY DEF TokenInv
<1>1. UNCHANGED <<boot, att, want, got, top>> /\ call.pc = "idle"
  BY DEF handle_rsi_attest_token_continue
<1>2. GotOK' /\ BootOK' /\ CtxTypes' /\ (top \in Nat /\ top <= Granule)'
  BY <1>0, <1>1 DEF GotOK, Byte, BootOK, CtxTypes
<1>3. CASE ContinueArgsValid(v, o, s)
  <2>1. call' = [pc |-> AfterChecks, offset |-> o, size |-> s] /\ UNCHANGED answer
    BY <1>3 DEF handle_rsi_attest_token_continue
  <2>2. o \in Nat /\ s \in Nat /\ o + s <= Granule
    BY <1>3, ArgsInPage
  <2>3. CallOK'
    BY <1>0, <1>1, <2>1, <2>2 DEF CallOK, CtxTypes, AfterChecks
  <2>4. CtxOK'
    BY <1>0, <1>1, <2>1 DEF CtxOK, Fresh
  <2> QED BY <1>2, <2>3, <2>4 DEF TokenInv
<1>4. CASE ~ContinueArgsValid(v, o, s)
  <2>1. answer' = "ERROR_INPUT" /\ UNCHANGED call
    BY <1>4 DEF handle_rsi_attest_token_continue
  <2>2. CallOK'
    BY <1>0, <1>1, <2>1 DEF CallOK
  <2>3. CtxOK'
    BY <1>0, <1>1, <2>1 DEF CtxOK, Fresh
  <2> QED BY <1>2, <2>2, <2>3 DEF TokenInv
<1> QED BY <1>3, <1>4

\* A signing iteration; an interrupt may end the call after it.
LEMMA SignKeeps ==
  ASSUME TokenInv, NEW ok \in BOOLEAN, NEW irq \in BOOLEAN, attest_realm_token_sign(ok, irq)
  PROVE  TokenInv'
<1> DEFINE a == IF att.left > 1 THEN [att EXCEPT !.left = @ - 1]
                ELSE [att EXCEPT !.state = "CREATE", !.realm_token_len = 1]
           Stops(c) == answer' = c /\ call' = Idle
<1>0. GotOK /\ BootOK /\ CtxTypes /\ CtxOK /\ CallOK /\ top \in Nat /\ top <= Granule
  BY DEF TokenInv
<1>1. UNCHANGED <<boot, want, got, top>> /\ call.pc = "sign" /\ att.realm_token_len = 0
  BY <1>0 DEF attest_realm_token_sign, CallOK
<1>2. GotOK' /\ BootOK' /\ (top \in Nat /\ top <= Granule)'
  BY <1>0, <1>1 DEF GotOK, Byte, BootOK
<1>3. CASE att.state # "SIGN" \/ ~ok
  <2>1. UNCHANGED att /\ call' = Idle /\ answer' \in {"ERROR_STATE", "ERROR_UNKNOWN"}
    BY <1>3 DEF attest_realm_token_sign, Answer
  <2>2. CtxTypes' /\ CallOK'
    BY <1>0, <2>1, TokenAssumption DEF CtxTypes, CallOK, Idle
  <2>3. CtxOK'
    BY <1>0, <1>1, <2>1 DEF CtxOK, Fresh
  <2> QED BY <1>2, <2>2, <2>3 DEF TokenInv
<1>4. CASE att.state = "SIGN" /\ ok
  <2>1. /\ att' = a
        /\ IF irq THEN Stops("INCOMPLETE")
           ELSE /\ call' = [call EXCEPT !.pc = IF a.realm_token_len = 0 THEN "sign" ELSE "write"]
                /\ UNCHANGED answer
    BY <1>4 DEF attest_realm_token_sign, Answer
  <2>2. /\ DOMAIN a = CtxFields /\ a.payload = att.payload /\ a.copied_len = att.copied_len
        /\ a.cca_token_len = att.cca_token_len
        /\ \/ a.state = "SIGN" /\ a.realm_token_len = 0
           \/ a.state = "CREATE" /\ a.realm_token_len = 1
    BY <1>0, <1>1, <1>4 DEF CtxTypes, CtxFields
  <2>3. Fresh /\ answer # "SUCCESS" /\ boot.stage = "ok"
    BY <1>0, <1>4 DEF CtxOK
  <2> HIDE DEF a
  <2>4. CtxTypes'
    BY <1>0, <2>1, <2>2 DEF CtxTypes
  <2>5. CallOK'
    <3>1. CASE irq
      BY <2>1, <3>1, TokenAssumption DEF CallOK, Idle
    <3>2. CASE ~irq
      BY <1>0, <2>1, <2>2, <3>2 DEF CallOK
    <3> QED BY <3>1, <3>2
  <2>6. CtxOK'
    <3>1. answer' # "SUCCESS"
      BY <2>1, <2>3
    <3>2. Fresh'
      BY <1>1, <2>1, <2>2, <2>3 DEF Fresh
    <3> QED BY <1>1, <2>1, <2>2, <2>3, <3>1, <3>2 DEF CtxOK
  <2> QED BY <1>2, <2>4, <2>5, <2>6 DEF TokenInv
<1> QED BY <1>3, <1>4

\* A copy from a context in which the whole token is left, or what the realm has not got.
LEMMA CopyKeeps ==
  ASSUME TokenInv, call.pc = "write", call.size # 0, boot.stage = "ok", want # NoToken,
         UNCHANGED <<boot, want>>,
         NEW a, CopyOut(a), DOMAIN a = CtxFields, a.state = "NOT_STARTED", a.realm_token_len = 1,
         a.cca_token = want, a.copied_len = Len(got), a.cca_token_len \in Nat \ {0},
         Len(got) + a.cca_token_len = TokenLen
  PROVE  TokenInv'
<1> DEFINE n == IF call.size < a.cca_token_len THEN call.size ELSE a.cca_token_len
           new == got \o Bytes(want, Len(got), n)
<1>0. GotOK /\ BootOK /\ CallOK /\ boot.plat = PlatLen /\ TokenLen \in Nat /\ Granule \in Nat
  BY TokenAssumption DEF TokenInv, BootOK
<1>1. n \in Nat /\ n # 0 /\ n <= call.size /\ n <= a.cca_token_len
  BY <1>0 DEF CallOK
<1>2. /\ got' = new /\ top' = call.offset + n /\ call' = Idle
      /\ IF a.cca_token_len # n
         THEN /\ att' = [a EXCEPT !.cca_token_len = @ - n, !.copied_len = @ + n]
              /\ answer' = "INCOMPLETE"
         ELSE att' = [a EXCEPT !.realm_token_len = 0] /\ answer' = "SUCCESS"
  BY DEF CopyOut, Answer
<1> HIDE DEF n
<1>3. /\ new \in Seq({Byte(i) : i \in Nat}) /\ Len(new) = Len(got) + n
      /\ \A i \in DOMAIN new : new[i] = Byte(i)
  BY <1>0, <1>1, CopyContinues
<1> HIDE DEF new
<1>4. GotOK' /\ Len(got') = Len(got) + n /\ Len(got) \in Nat
  <2>1. \A i : Byte(i)' = Byte(i)
    BY DEF Byte
  <2> QED BY <1>0, <1>2, <1>3, <2>1 DEF GotOK, Byte
<1>5. got' # <<>>
  BY <1>1, <1>4
<1>6. BootOK'
  BY <1>0 DEF BootOK
<1>7. (top \in Nat /\ top <= Granule)'
  BY <1>0, <1>1, <1>2 DEF CallOK
<1>8. CallOK'
  BY <1>0, <1>2 DEF CallOK, Idle
<1>9. CASE a.cca_token_len # n
  <2>1. /\ DOMAIN att' = CtxFields /\ att'.state = "NOT_STARTED" /\ att'.realm_token_len = 1
        /\ att'.cca_token = want /\ att'.cca_token_len = a.cca_token_len - n
        /\ att'.copied_len = Len(got) + n /\ answer' = "INCOMPLETE"
    BY <1>2, <1>9 DEF CtxFields
  <2>2. CtxTypes'
    BY <1>1, <1>4, <2>1 DEF CtxTypes
  <2>3. CtxOK'
    BY <1>1, <1>4, <1>5, <1>9, <2>1 DEF CtxOK
  <2> QED BY <1>4, <1>6, <1>7, <1>8, <2>2, <2>3 DEF TokenInv
<1>10. CASE a.cca_token_len = n
  <2>1. /\ DOMAIN att' = CtxFields /\ att'.state = "NOT_STARTED" /\ att'.realm_token_len = 0
        /\ att'.cca_token_len = a.cca_token_len /\ att'.copied_len = Len(got) /\ answer' = "SUCCESS"
    BY <1>2, <1>10 DEF CtxFields
  <2>2. CtxTypes'
    BY <1>1, <1>4, <2>1 DEF CtxTypes
  <2>3. CtxOK'
    BY <1>1, <1>4, <1>5, <1>10, <2>1 DEF CtxOK
  <2> QED BY <1>4, <1>6, <1>7, <1>8, <2>2, <2>3 DEF TokenInv
<1> QED BY <1>9, <1>10

\* The end of a CONTINUE: refused, faulted, empty, or a copy.
LEMMA WriteKeeps ==
  ASSUME TokenInv, attest_token_continue_write_state
  PROVE  TokenInv'
<1>0. GotOK /\ BootOK /\ CtxTypes /\ CtxOK /\ CallOK /\ top \in Nat /\ top <= Granule
  BY DEF TokenInv
<1>1. UNCHANGED <<boot, want>> /\ call.pc = "write" /\ att.realm_token_len = 1
  BY <1>0 DEF attest_token_continue_write_state, CallOK
<1>2. att.state \in {"NOT_STARTED", "CREATE"} /\ answer # "SUCCESS"
  BY <1>0, <1>1 DEF CtxTypes, CtxOK
<1>3. ASSUME UNCHANGED <<att, got, top>>, call' = Idle, answer' # "SUCCESS"
      PROVE  TokenInv'
  <2>1. GotOK' /\ BootOK' /\ CtxTypes' /\ CallOK' /\ (top \in Nat /\ top <= Granule)'
    BY <1>0, <1>1, <1>3, TokenAssumption DEF GotOK, Byte, BootOK, CtxTypes, CallOK, Idle
  <2>2. CtxOK'
    BY <1>0, <1>1, <1>2, <1>3 DEF CtxOK, Fresh
  <2> QED BY <2>1, <2>2 DEF TokenInv
<1>4. CASE buffer = "mapped" /\ call.size # 0 /\ att.copied_len # 0 /\ CopyOut(att)
  <2>1. att.state = "NOT_STARTED"
    BY <1>0, <1>2, <1>4 DEF CtxOK, Fresh
  <2> QED BY <1>0, <1>1, <1>4, <2>1, CopyKeeps DEF CtxTypes, CtxOK
<1>5. CASE buffer = "mapped" /\ call.size # 0 /\ att.state = "CREATE" /\ CopyOut(attest_cca_token_create(att))
  <2> DEFINE a == attest_cca_token_create(att)
  <2>1. Fresh /\ boot.stage = "ok"
    BY <1>0, <1>5 DEF CtxOK
  <2>2. /\ DOMAIN a = CtxFields /\ a.state = "NOT_STARTED" /\ a.realm_token_len = 1
        /\ a.cca_token = want /\ a.copied_len = 0 /\ a.cca_token_len = TokenLen
    BY <1>0, <1>1, <2>1 DEF attest_cca_token_create, CtxTypes, CtxFields, Fresh
  <2>3. Len(got) = 0 /\ TokenLen \in Nat \ {0}
    BY <2>1, TokenAssumption DEF Fresh
  <2> HIDE DEF a
  <2>4. CopyOut(a) /\ want # NoToken
    BY <1>5, <2>1 DEF a, Fresh
  <2>5. a.copied_len = Len(got) /\ Len(got) + a.cca_token_len = TokenLen /\ a.cca_token_len \in Nat \ {0}
    BY <2>2, <2>3
  <2> QED BY <1>1, <1>5, <2>1, <2>2, <2>4, <2>5, CopyKeeps
<1> QED BY <1>3, <1>4, <1>5 DEF attest_token_continue_write_state, Answer

LEMMA TokenStep ==
  ASSUME TokenInv, [AttestNext]_attVars
  PROVE  TokenInv'
<1>0. BootOK
  BY DEF TokenInv
<1>1. CASE attestation_init \/ \E n \in 0..PlatLen, ok \in BOOLEAN : attest_setup_platform_token(n, ok)
  BY <1>1, BootKeeps
<1>2. CASE \/ \E what \in {"rec", "data", "ripas"} : MeasureBuild(what)
           \/ Activate
           \/ \E index \in 0..1, v \in Challenges : handle_rsi_measurement_extend(index, v)
           \/ \E b \in {"mapped", "unmapped", "empty"} : HostBuffer(b)
           \/ UNCHANGED attVars
  <2>1. UNCHANGED <<boot, att, call, want, got, top, answer>>
    BY <1>2 DEF MeasureBuild, Activate, handle_rsi_measurement_extend, HostBuffer, attVars
  <2>2. BootOK'
    BY <1>0, <2>1 DEF BootOK
  <2> QED BY <2>1, <2>2, AsideKeeps
<1>3. CASE \E ch \in Challenges, ok \in BOOLEAN : handle_rsi_attest_token_init(ch, ok)
  BY <1>3, InitKeeps
<1>4. CASE \E v \in BOOLEAN, o \in Offsets, s \in Lengths : handle_rsi_attest_token_continue(v, o, s)
  BY <1>4, ContinueKeeps
<1>5. CASE \E ok, irq \in BOOLEAN : attest_realm_token_sign(ok, irq)
  BY <1>5, SignKeeps
<1>6. CASE attest_token_continue_write_state
  BY <1>6, WriteKeeps
<1> QED BY <1>1, <1>2, <1>3, <1>4, <1>5, <1>6 DEF AttestNext

LEMMA TokenImplies ==
  ASSUME TokenInv
  PROVE  TokenExact
<1>0. GotOK /\ CtxTypes /\ CtxOK /\ TokenLen \in Nat \ {0} /\ top <= Granule
  BY TokenAssumption DEF TokenInv
<1>1. \A i \in DOMAIN got : got[i] = [tok |-> want, at |-> i, plat |-> PlatLen]
  BY <1>0 DEF GotOK, Byte
<1>2. got = <<>> => Len(got) = 0
  OBVIOUS
<1>3. Len(got) \in Nat
  BY <1>0 DEF GotOK
<1>4. got # <<>> => want # NoToken
  BY <1>0 DEF CtxTypes, CtxOK, Fresh
<1>5. answer = "SUCCESS" => Len(got) = TokenLen
  BY <1>0 DEF CtxTypes, CtxOK
<1>6. answer = "INCOMPLETE" => Len(got) < TokenLen
  BY <1>0, <1>2, <1>3 DEF CtxTypes, CtxOK, Fresh
<1> QED BY <1>0, <1>1, <1>4, <1>5, <1>6 DEF TokenExact

(***************************************************************************)
(* What handle_rsi_attest_token_continue copies to a realm after an INIT   *)
(* is the token of that INIT, from the first byte on and without gaps,     *)
(* with the whole platform token in it; SUCCESS comes with the last byte;  *)
(* and no copy leaves the page: however signing and copying are cut by     *)
(* interrupts, faults and lengths, and whatever other RECs measure.        *)
(***************************************************************************)
THEOREM TokenExactAlways == AttestSpec => []TokenExact
<1>1. AttestInit => TokenInv
  BY TokenInit
<1>2. TokenInv /\ [AttestNext]_attVars => TokenInv'
  BY TokenStep
<1>3. TokenInv => TokenExact
  BY TokenImplies
<1> QED BY <1>1, <1>2, <1>3, PTL DEF AttestSpec
=============================================================================
