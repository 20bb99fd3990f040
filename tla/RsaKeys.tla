-------------------------------- MODULE RsaKeys --------------------------------
(***************************************************************************)
(* internal/crypto/rsa.go and the CloudFront signer's parsing of keys, as   *)
(* operators.  A PEM block is kept by its type, the encoding of its bytes   *)
(* and the key pair it belongs to; a signature by what it was made from,    *)
(* which is what makes it verify.  The cryptography is external.            *)
(***************************************************************************)
CONSTANT NoKey   \* stands for a parse error

(* The bytes of a new secret: pem.Decode finds no block. *)
NoPem == [type |-> "", der |-> "", key |-> NoKey]

(* A key pair as Generate encodes it, and a private key in PKCS8. *)
Generate(key) == [private |-> [type |-> "RSA PRIVATE KEY", der |-> "PKCS1", key |-> key],
                  public  |-> [type |-> "PUBLIC KEY", der |-> "PKIX", key |-> key]]
PKCS8(key) == [type |-> "PRIVATE KEY", der |-> "PKCS8", key |-> key]

(* parseRSAPrivateKey: by the block's type, else PKCS8, else PKCS1. *)
ParseRSAPrivateKey(pem) ==
    IF \/ pem.der = "PKCS1"
       \/ pem.der = "PKCS8" /\ pem.type # "RSA PRIVATE KEY"
    THEN pem.key ELSE NoKey

(* NewCloudFrontSignerFromPEM: by the block's type only. *)
ParseCloudFrontKey(pem) ==
    IF pem.der = (IF pem.type = "RSA PRIVATE KEY" THEN "PKCS1" ELSE "PKCS8")
    THEN pem.key ELSE NoKey

(* NewRSAVerifierFromPEM *)
ParsePublicKey(pem) == IF pem.der = "PKIX" THEN pem.key ELSE NoKey

(* hashAlgoToCrypto *)
SupportedHashes == {"SHA256", "SHA1", "SHA512"}

Sign(key, hash, payload) == [key |-> key, hash |-> hash, payload |-> payload]

Verify(key, hash, payload, signature) ==
    hash \in SupportedHashes /\ signature = Sign(key, hash, payload)
===============================================================================
