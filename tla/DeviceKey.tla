------------------------------ MODULE DeviceKey ------------------------------
(***************************************************************************)
(* The Device Keys of a phone (the native module mobily-device-key): one key *)
(* pair for each alias in the Android Keystore, which signs a payload once   *)
(* the user has shown a strong biometric, and for half an hour after that.   *)
(*                                                                         *)
(* The Keystore is the set of its aliases; an alias is a device binding id.  *)
(* A call that may end in several ways is the set of its outcomes: a promise *)
(* is resolved with a signature or with null ("cancelled"), or rejected.     *)
(***************************************************************************)

\* createKey: a key of that alias gives way to the new one.
KeyCreated(keyStore, alias) == (keyStore \ {alias}) \cup {alias}

\* deleteKey, which may reject.
KeyDeleted(keyStore, alias) == {keyStore \ {alias}, keyStore}

\* onAuthenticationSucceeded: the payload is signed, unless the key refuses.
SigningFailure == {"invalidated", "failed"}
AuthenticationSucceeded == {"signature"} \cup SigningFailure

\* onAuthenticationError: the user cancelled, or the biometric failed.
AuthenticationError == {"cancelled", "biometric"}

\* A prompt that cannot be shown.
PromptNotStarted == {"biometric"}

PromptEnds == AuthenticationSucceeded \cup AuthenticationError \cup PromptNotStarted

\* A key that trusts a recent biometric prompts only when there is none.
SignWithRecentAuthentication(recent) == IF recent THEN {"signature"} ELSE PromptEnds

\* A key of an older release prompts for every signature.
SignWithPerUseAuthentication == PromptEnds

\* sign: no such key, a key that cannot be read or was invalidated, an app in
\* the background; or the signature that the policy of the key calls for.
Sign(keyStore, alias) ==
  IF alias \notin keyStore THEN {"unavailable", "failed"}
  ELSE {"unavailable", "invalidated", "failed"} \cup SignWithPerUseAuthentication
       \cup UNION {SignWithRecentAuthentication(recent) : recent \in BOOLEAN}

\* deviceKeyRequiresRepair: whether the user has to pair again.  An exception of
\* no known kind is judged by its message.
DeviceKeyRequiresRepair(outcome) ==
  CASE outcome \in {"unavailable", "invalidated"} -> {TRUE}
    [] outcome \in AuthenticationError -> {FALSE}
    [] OTHER -> BOOLEAN
=============================================================================
