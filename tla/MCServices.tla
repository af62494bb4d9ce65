------------------------------ MODULE MCServices ------------------------------
(***************************************************************************)
(* Small instances, for TLC, of the parts of the backend that share no     *)
(* state with one another.  A behaviour is one of one part, `part', while  *)
(* the others stay where they start: the parts' state spaces add up        *)
(* instead of multiplying, and each is checked in full.                    *)
(***************************************************************************)
EXTENDS Quota, Versions, Accounts, Preferences, Sessions, Feed, DealTypes,
        ModelMemory

CONSTANTS q1, q2, r1, r2, r3, a1, a2, e1, e2, g1, g2, y1, s1, s2, u1, d1, st1,
          b1, b2, c1, c2, t1, t2,
          w1, w2, w3, m1, m2, m3, m4

VARIABLE part

Parts == {"quota", "versions", "accounts", "preferences", "sessions", "feed", "deal types",
          "memory"}

serviceVars ==
  <<part, quotaVars, versionVars, accountVars, prefVars, sessionVars, feedVars, dealVars,
    memoryVars>>

\* Where a part that is not the one at work stands.
AtRest ==
  /\ part # "quota" => limitOf = [c \in PlanCodes |-> NoLimit]
  /\ part # "versions" => s3 /\ rows = {}
  /\ part # "accounts" => email[a1] = SeedEmail
  /\ part # "deal types" => catalogue = 1
  /\ part # "memory" => ~swap /\ ~llm /\ embedder = NoCopy

ServicesInit ==
  /\ part \in Parts
  /\ QuotaInit /\ VersionsInit /\ AccountsInit /\ PreferencesInit
  /\ SessionsInit /\ FeedInit /\ DealTypesInit /\ ModelMemoryInit
  /\ AtRest

ServicesNext ==
  \/ /\ part = "quota" /\ QuotaNext
     /\ UNCHANGED <<part, versionVars, accountVars, prefVars, sessionVars,
                    feedVars, dealVars, memoryVars>>
  \/ /\ part = "versions" /\ VersionsNext
     /\ UNCHANGED <<part, quotaVars, accountVars, prefVars, sessionVars,
                    feedVars, dealVars, memoryVars>>
  \/ /\ part = "accounts" /\ AccountsNext
     /\ UNCHANGED <<part, quotaVars, versionVars, prefVars, sessionVars,
                    feedVars, dealVars, memoryVars>>
  \/ /\ part = "preferences" /\ PreferencesNext
     /\ UNCHANGED <<part, quotaVars, versionVars, accountVars, sessionVars,
                    feedVars, dealVars, memoryVars>>
  \/ /\ part = "sessions" /\ SessionsNext
     /\ UNCHANGED <<part, quotaVars, versionVars, accountVars, prefVars,
                    feedVars, dealVars, memoryVars>>
  \/ /\ part = "feed" /\ FeedNext
     /\ UNCHANGED <<part, quotaVars, versionVars, accountVars, prefVars,
                    sessionVars, dealVars, memoryVars>>
  \/ /\ part = "deal types" /\ DealTypesNext
     /\ UNCHANGED <<part, quotaVars, versionVars, accountVars, prefVars,
                    sessionVars, feedVars, memoryVars>>
  \/ /\ part = "memory" /\ ModelMemoryNext
     /\ UNCHANGED <<part, quotaVars, versionVars, accountVars, prefVars,
                    sessionVars, feedVars, dealVars>>

ServicesSpec == ServicesInit /\ [][ServicesNext]_serviceVars
=============================================================================
