------------------------------- MODULE Errors -------------------------------
(***************************************************************************)
(* The exception classes of pygls.exceptions on both sides of an error     *)
(* response: the server turns an exception into a code, and the client     *)
(* turns the code into an exception of a class that supports it.           *)
(***************************************************************************)
EXTENDS Integers

\* The class attribute CODE.  JsonRpcServerError inherits the one of
\* JsonRpcException and is constructed with a code of its own.
ClassCode == [
  JsonRpcException               |-> -32603,
  JsonRpcInternalError           |-> -32603,
  JsonRpcInvalidParams           |-> -32602,
  JsonRpcInvalidRequest          |-> -32600,
  JsonRpcMethodNotFound          |-> -32601,
  JsonRpcParseError              |-> -32700,
  JsonRpcRequestCancelled        |-> -32800,
  JsonRpcContentModified         |-> -32801,
  JsonRpcServerNotInitialized    |-> -32002,
  JsonRpcUnknownErrorCode        |-> -32001,
  JsonRpcReservedErrorRangeStart |-> -32099,
  JsonRpcReservedErrorRangeEnd   |-> -32000,
  LspReservedErrorRangeStart     |-> -32899,
  LspReservedErrorRangeEnd       |-> -32800,
  JsonRpcServerError             |-> -32603]

Classes == DOMAIN ClassCode

\* _EXCEPTIONS, the classes from_error looks through.
ReceivedClasses == {
  "JsonRpcInternalError", "JsonRpcInvalidParams", "JsonRpcInvalidRequest",
  "JsonRpcMethodNotFound", "JsonRpcParseError", "JsonRpcRequestCancelled",
  "JsonRpcServerError"}

\* Mutant: the lower bound of the range with its digits mixed up.
IsServerErrorCodeWide(code) == -32909 <= code /\ code <= -32000

IsServerErrorCode(code) == -32099 <= code /\ code <= -32000

SupportsCode(class, code) ==
  IF class = "JsonRpcServerError" THEN IsServerErrorCode(code) ELSE ClassCode[class] = code

\* JsonRpcException.__init__: a code of 0 is taken for none given.
Raise(class, code) == [class |-> class, code |-> IF code = 0 THEN ClassCode[class] ELSE code]

\* What a handler can raise: any class with any code (JsonRpcException.__init__
\* does not compare the two), but a server error with a code of its range.
Exceptions ==
  {exc \in [class : Classes, code : Int \ {0}] :
     exc.class = "JsonRpcServerError" => IsServerErrorCode(exc.code)}

\* from_error: the first class in the order of a Python set, which is any.
FromError(code) ==
  LET supporting == {c \in ReceivedClasses : SupportsCode(c, code)}
  IN  {Raise(c, code) : c \in IF supporting = {} THEN {"JsonRpcException"} ELSE supporting}

=============================================================================
