------------------------------ MODULE ReplyText ------------------------------
(***************************************************************************)
(* What a reply says: the user-facing content of a transcript (harmony.py) *)
(* and the whole-file frame in it (edits.py).                              *)
(*                                                                         *)
(* A text is a sequence of tokens.  The header prefix "FILE: ", the fence  *)
(* marker and each channel marker are one token each, a newline is one,    *)
(* and a path is the sequence of its segments.  White space other than the *)
(* newline and the carriage return of a CRLF header does not occur.  A     *)
(* lone surrogate, which JSON can spell and UTF-8 cannot, is one token.    *)
(***************************************************************************)
EXTENDS Integers, Sequences, SequencesExt

CONSTANTS
  Nl, Cr,
  FilePrefix,       \* WHOLE_FILE_REPLY_PREFIX
  Fence, Info,      \* "```" and an info string after it
  Analysis,         \* opens a channel that is not user-facing
  Final,            \* _FINAL_MESSAGE: opens the one that is
  Return, End,      \* _TERMINATORS
  Surrogate,        \* what raises UnicodeEncodeError
  NoReply           \* None, where extract_file returns it

Markup == {Nl, Cr, FilePrefix, Fence, Info, Analysis, Final, Return, End}

ASSUME MarkupAssumption ==
  /\ Nl \notin {Cr, FilePrefix, Fence, Info, Analysis, Final, Return, End}
  /\ Cr # FilePrefix /\ Fence # Info
  /\ {Nl, FilePrefix, Fence, Info} \cap {Analysis, Final, Return, End} = {}
  /\ Final \notin {Return, End}
  /\ Surrogate \notin Markup

First(text, token) == SelectInSeq(text, LAMBDA t : t = token)
Latest(text, token) == SelectLastInSeq(text, LAMBDA t : t = token)

(* str.partition: what precedes the first such token, or the whole text. *)
Before(text, token) ==
  IF Contains(text, token) THEN SubSeq(text, 1, First(text, token) - 1) ELSE text
After(text, i) == SubSeq(text, i + 1, Len(text))

lstrip(text) ==
  LET i == SelectInSeq(text, LAMBDA t : t # Nl)
  IN  IF i = 0 THEN <<>> ELSE After(text, i - 1)
rstrip(text) == SubSeq(text, 1, SelectLastInSeq(text, LAMBDA t : t # Nl))

(* MUTANT: the first final message is taken, the one the model abandoned. *)
assistant_content_first(text) ==
  IF lstrip(text) = <<>> \/ Head(lstrip(text)) \notin {Analysis, Final} THEN text
  ELSE IF ~Contains(text, Final) THEN <<>>
  ELSE Before(Before(After(text, First(text, Final)), Return), End)

(* assistant_content: a text that opens as a transcript is read from its     *)
(* last final message to the first terminator after it.                      *)
assistant_content(text) ==
  IF lstrip(text) = <<>> \/ Head(lstrip(text)) \notin {Analysis, Final} THEN text
  ELSE IF ~Contains(text, Final) THEN <<>>
  ELSE Before(Before(After(text, Latest(text, Final)), Return), End)

is_fence_opener(line) == line # <<>> /\ Head(line) = Fence /\ ~Contains(Tail(line), Fence)

(* _unwrap_fence: a lone opener first and a bare closer last, blank lines    *)
(* aside, are transport; anything less is the file's own.                    *)
unwrap_fence(payload) ==
  LET trimmed == rstrip(payload)
      opened == First(trimmed, Nl)
      closing == Latest(trimmed, Nl)
      body == SubSeq(trimmed, opened + 1, closing - 1)
  IN  IF /\ Contains(trimmed, Nl)
         /\ is_fence_opener(Before(trimmed, Nl))
         /\ After(trimmed, closing) = <<Fence>>
      THEN IF body = <<>> THEN <<>> ELSE Append(body, Nl)
      ELSE payload

removeprefix(text) == IF text # <<>> /\ Head(text) = Nl THEN Tail(text) ELSE text

(* extract_file: the first line that is not blank must be a header; the rest *)
(* is the file, less one blank line and a fence around all of it.  Neither   *)
(* may fail to encode.                                                       *)
extract_file(text) ==
  LET framed == lstrip(text)
      header == Before(framed, Nl)
      payload == unwrap_fence(removeprefix(After(framed, First(framed, Nl))))
  IN  IF \/ ~Contains(framed, Nl)
         \/ Contains(header, Cr)
         \/ Head(header) # FilePrefix
         \/ Tail(header) = <<>>
         \/ Contains(Tail(header), Surrogate) \/ Contains(payload, Surrogate)
      THEN NoReply
      ELSE [path |-> Tail(header), payload |-> payload]
=============================================================================
