------------------------------- MODULE Attest -------------------------------
(***************************************************************************)
(* Attestation and measurement for one REC of a realm, with signing in the *)
(* RMM: the setup at boot (attestation_utils.c, attestation_key.c), the    *)
(* measurements (lib/measurement) and the token, which the realm asks for  *)
(* with RSI_ATTEST_TOKEN_INIT and then fetches in pieces, one              *)
(* RSI_ATTEST_TOKEN_CONTINUE at a time (realm_attest.c,                    *)
(* attestation_token.c).  Signing is cut into iterations; a pending        *)
(* interrupt ends a call after any of them.  Another REC of the realm may  *)
(* extend the measurements, and the host may take the buffer away, between *)
(* two steps.                                                              *)
(*                                                                         *)
(* A token is named by the challenge and the measurements it was made      *)
(* from; a byte of it by the token and its position.                       *)
(***************************************************************************)
EXTENDS Integers, Sequences

CONSTANTS
  Granule,        \* GRANULE_SIZE
  RegWidth,       \* the width of a register
  TokenLen,       \* the length of the CCA token
  SignRounds,     \* the iterations signing takes
  PlatLen,        \* the length of the platform token EL3 has
  PlatSize,       \* ATTEST_PLAT_TOKEN_SIZE
  Challenges,
  Offsets, Lengths,  \* what the realm passes to CONTINUE
  MaxExtends      \* bound: the measurements taken

VARIABLES
  boot,           \* [stage, plat]: attestation_init and the platform token so far
  active,         \* whether the realm is active
  meas,           \* rd->measurement: slot -> what was measured into it
  att,            \* rec_attest_data and the signing context
  call,           \* the CONTINUE the REC is in: [pc, offset, size]
  buffer,         \* the realm's page: "mapped", "unmapped" or "empty" (RIPAS)
  want,           \* the token the last INIT stands for, or NoToken
  got,            \* the bytes the realm has received since then
  top,            \* the end of the last copy, within the page
  answer          \* the last answer to the realm

attVars == <<boot, active, meas, att, call, buffer, want, got, top, answer>>

\* A token is not empty, and what the realm passes fits a register.
ASSUME TokenAssumption ==
  /\ Granule \in Nat /\ TokenLen \in Nat \ {0} /\ SignRounds \in Nat /\ PlatLen \in Nat
  /\ 2 ^ RegWidth \in Nat \ {0}
  /\ Offsets \cup Lengths \subseteq 0..(2 ^ RegWidth - 1)

NoToken == [ch |-> "none", meas |-> <<>>]
Idle == [pc |-> "idle", offset |-> 0, size |-> 0]
Add(a, b) == (a + b) % (2 ^ RegWidth)

NewCtx == [state |-> "NOT_STARTED", payload |-> NoToken, left |-> 0,
           realm_token_len |-> 0, cca_token_len |-> 0, copied_len |-> 0,
           cca_token |-> NoToken]

AttestInit ==
  /\ boot = [stage |-> "prng", plat |-> 0]
  /\ active = FALSE
  /\ meas = [i \in 0..1 |-> <<>>]
  /\ att = NewCtx
  /\ call = Idle
  /\ buffer = "mapped"
  /\ want = NoToken /\ got = <<>> /\ top = 0 /\ answer = "none"

-----------------------------------------------------------------------------
(***************************************************************************)
(* attestation_init: the random numbers, PSA, the key and then the         *)
(* platform token, hunk by hunk; EL3 may answer "again".  When it fails    *)
(* the RMM goes on without attestation.                                    *)
(***************************************************************************)
BootStage(next) ==
  \/ boot' = [boot EXCEPT !.stage = next]
  \/ boot' = [boot EXCEPT !.stage = "failed"]

attest_rnd_prng_init == boot.stage = "prng" /\ BootStage("psa")

psa_crypto_init == boot.stage = "psa" /\ BootStage("key")

attest_init_realm_attestation_key == boot.stage = "key" /\ BootStage("token")

attestation_init ==
  /\ attest_rnd_prng_init \/ psa_crypto_init \/ attest_init_realm_attestation_key
  /\ UNCHANGED <<active, meas, att, call, buffer, want, got, top, answer>>

attest_setup_platform_token(hunk, ok) ==
  /\ boot.stage = "token" /\ boot.plat + hunk <= PlatLen
  /\ boot' = IF ~ok \/ PlatLen > PlatSize THEN [boot EXCEPT !.stage = "failed"]
             ELSE [plat |-> boot.plat + hunk,
                   stage |-> IF boot.plat + hunk = PlatLen THEN "ok" ELSE "token"]
  /\ UNCHANGED <<active, meas, att, call, buffer, want, got, top, answer>>

-----------------------------------------------------------------------------
Measured == Len(meas[0]) + Len(meas[1])

measurement_extend(index, value) == meas' = [meas EXCEPT ![index] = Append(@, value)]

\* measurement_rec_params_measure, ..._data_granule_measure, ..._init_ripas_measure: before
\* the realm is activated the host's commands extend the initial measurement.
MeasureBuild(what) ==
  /\ ~active /\ boot.stage \in {"ok", "failed"} /\ Measured < MaxExtends
  /\ measurement_extend(0, what)
  /\ UNCHANGED <<boot, active, att, call, buffer, want, got, top, answer>>

Activate ==
  /\ ~active /\ boot.stage \in {"ok", "failed"}
  /\ active' = TRUE
  /\ UNCHANGED <<boot, meas, att, call, buffer, want, got, top, answer>>

\* handle_rsi_measurement_extend, by any REC of the realm: slot 0 is refused.
handle_rsi_measurement_extend(index, value) ==
  /\ active /\ Measured < MaxExtends
  /\ IF index = 0 THEN UNCHANGED meas ELSE measurement_extend(index, value)
  /\ UNCHANGED <<boot, active, att, call, buffer, want, got, top, answer>>

-----------------------------------------------------------------------------
(***************************************************************************)
(* handle_rsi_attest_token_init.  The context is cleared unless it is      *)
(* fresh; the token is built from the measurements under the RD lock.      *)
(***************************************************************************)
\* Mutant of ResetLengths: what the last token has left stays.
ResetLengthsPartly(a) == [a EXCEPT !.realm_token_len = 0, !.cca_token_len = 0]

ResetLengths(a) == [a EXCEPT !.realm_token_len = 0, !.cca_token_len = 0, !.copied_len = 0]

attest_token_ctx_init(a) ==
  IF a.state = "INIT" THEN a
  ELSE [a EXCEPT !.payload = NoToken, !.left = 0,
                 !.state = IF boot.stage = "ok" THEN "INIT" ELSE "NOT_STARTED"]

\* The claims are encoded and signing can begin.
attest_realm_token_create(a, tok) ==
  [a EXCEPT !.state = "SIGN", !.payload = tok, !.left = SignRounds]

handle_rsi_attest_token_init(ch, ok) ==
  /\ active /\ call.pc = "idle"
  /\ LET a   == attest_token_ctx_init(ResetLengths(att))
         tok == [ch |-> ch, meas |-> <<meas[0], meas[1]>>]
     IN  IF a.state = "INIT" /\ ok
         THEN /\ att' = attest_realm_token_create(a, tok)
              /\ want' = tok /\ answer' = "SUCCESS_INIT"
         ELSE att' = a /\ want' = NoToken /\ answer' = "ERROR_UNKNOWN"
  /\ got' = <<>> /\ top' = 0
  /\ UNCHANGED <<boot, active, meas, call, buffer>>

-----------------------------------------------------------------------------
(***************************************************************************)
(* handle_rsi_attest_token_continue: the arguments, then a signing         *)
(* iteration at a time, then the copy.                                     *)
(***************************************************************************)
ContinueArgsValid(ipaValid, offset, size) ==
  /\ ipaValid
  /\ offset < Granule
  /\ Add(offset, size) <= Granule
  /\ Add(offset, size) >= offset

AfterChecks == IF att.realm_token_len = 0 THEN "sign" ELSE "write"

handle_rsi_attest_token_continue(ipaValid, offset, size) ==
  /\ active /\ call.pc = "idle"
  /\ IF ContinueArgsValid(ipaValid, offset, size)
     THEN call' = [pc |-> AfterChecks, offset |-> offset, size |-> size] /\ UNCHANGED answer
     ELSE answer' = "ERROR_INPUT" /\ UNCHANGED call
  /\ UNCHANGED <<boot, active, meas, att, buffer, want, got, top>>

Answer(a) == answer' = a /\ call' = Idle

\* attest_realm_token_sign and what follows it in the loop; irq is check_pending_irq.
attest_realm_token_sign(ok, irq) ==
  /\ call.pc = "sign"
  /\ IF att.state # "SIGN" THEN Answer("ERROR_STATE") /\ UNCHANGED att
     ELSE IF ~ok THEN Answer("ERROR_UNKNOWN") /\ UNCHANGED att
     ELSE LET a == IF att.left > 1 THEN [att EXCEPT !.left = @ - 1]
                   ELSE [att EXCEPT !.state = "CREATE", !.realm_token_len = 1]
          IN  /\ att' = a
              /\ IF irq THEN Answer("INCOMPLETE")
                 ELSE /\ call' = [call EXCEPT !.pc = IF a.realm_token_len = 0 THEN "sign" ELSE "write"]
                      /\ UNCHANGED answer
  /\ UNCHANGED <<boot, active, meas, buffer, want, got, top>>

\* attest_cca_token_create: only with the signed token of this context.
attest_cca_token_create(a) ==
  [a EXCEPT !.state = "NOT_STARTED", !.cca_token = a.payload, !.cca_token_len = TokenLen]

Bytes(tok, from, n) == [i \in 1..n |-> [tok |-> tok, at |-> from + i, plat |-> boot.plat]]

\* The copy, from a context that holds the CCA token.
CopyOut(a) ==
  LET length == IF call.size < a.cca_token_len THEN call.size ELSE a.cca_token_len
  IN  /\ got' = got \o Bytes(a.cca_token, a.copied_len, length)
      /\ top' = call.offset + length
      /\ IF a.cca_token_len # length
         THEN /\ att' = [a EXCEPT !.cca_token_len = @ - length, !.copied_len = @ + length]
              /\ Answer("INCOMPLETE")
         ELSE att' = [a EXCEPT !.realm_token_len = 0] /\ Answer("SUCCESS")

attest_token_continue_write_state ==
  /\ call.pc = "write"
  /\ \/ /\ buffer = "empty" /\ Answer("ERROR_INPUT")
        /\ UNCHANGED <<att, got, top>>
     \/ /\ buffer = "unmapped" /\ Answer("FAULT")
        /\ UNCHANGED <<att, got, top>>
     \/ /\ buffer = "mapped" /\ call.size = 0 /\ Answer("INCOMPLETE")
        /\ UNCHANGED <<att, got, top>>
     \/ /\ buffer = "mapped" /\ call.size # 0
        /\ IF att.copied_len # 0 THEN CopyOut(att)
           ELSE IF att.state = "CREATE" THEN CopyOut(attest_cca_token_create(att))
           ELSE Answer("ERROR_INPUT") /\ UNCHANGED <<att, got, top>>
  /\ UNCHANGED <<boot, active, meas, buffer, want>>

\* The host unmaps the page or maps it again, the realm gives it up.
HostBuffer(b) ==
  /\ active /\ buffer # b
  /\ buffer' = b
  /\ UNCHANGED <<boot, active, meas, att, call, want, got, top, answer>>

AttestNext ==
  \/ attestation_init
  \/ \E hunk \in 0..PlatLen, ok \in BOOLEAN : attest_setup_platform_token(hunk, ok)
  \/ \E what \in {"rec", "data", "ripas"} : MeasureBuild(what)
  \/ Activate
  \/ \E index \in 0..1, v \in Challenges : handle_rsi_measurement_extend(index, v)
  \/ \E ch \in Challenges, ok \in BOOLEAN : handle_rsi_attest_token_init(ch, ok)
  \/ \E v \in BOOLEAN, o \in Offsets, s \in Lengths : handle_rsi_attest_token_continue(v, o, s)
  \/ \E ok, irq \in BOOLEAN : attest_realm_token_sign(ok, irq)
  \/ attest_token_continue_write_state
  \/ \E b \in {"mapped", "unmapped", "empty"} : HostBuffer(b)

AttestSpec == AttestInit /\ [][AttestNext]_attVars

-----------------------------------------------------------------------------
(***************************************************************************)
(* What the realm receives after an INIT is the token of that INIT, made   *)
(* from its challenge and from the measurements at that time, with the     *)
(* whole platform token in it, from the first byte on and without gaps,    *)
(* however the calls were cut; it hears SUCCESS with the last byte and not *)
(* before; and no copy leaves the page.                                    *)
(***************************************************************************)
TokenExact ==
  /\ \A i \in DOMAIN got : got[i] = [tok |-> want, at |-> i, plat |-> PlatLen]
  /\ got # <<>> => want # NoToken
  /\ answer = "SUCCESS" => Len(got) = TokenLen
  /\ answer = "INCOMPLETE" => Len(got) < TokenLen
  /\ top <= Granule
=============================================================================
