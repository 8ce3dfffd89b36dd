------------------------------- MODULE MCParser -------------------------------
(* A small instance of Parser: five kinds of input, each with the bytes that   *)
(* can end, cancel or spoil its sequences.                                     *)
EXTENDS Parser

SmallAlphabets == {
  {27, 91, 57, 59, 63, 32, 65, 10, 24},      \* ESC [ 9 ; ? space A LF CAN
  {27, 93, 50, 59, 7, 92, 128, 200, 40},     \* ESC ] 2 ; BEL \ 80 C8 (
  {27, 80, 49, 58, 113, 92, 156, 10, 127},   \* ESC P 1 : q \ ST LF DEL
  {27, 40, 48, 88, 91, 92, 26, 127, 200},    \* ESC ( 0 X [ \ SUB DEL C8
  {27, 97, 195, 224, 240, 144, 169, 255}}    \* ESC a C3 E0 F0 90 A9 FF

\* ESC [ A, ESC [ ? 9 h, ESC ] 2 ; a BEL, ESC ( 0, ESC P q 1 ST, text and ESC \
SomeProbes == {<<27, 91, 65>>, <<27, 91, 63, 57, 104>>, <<27, 93, 50, 59, 97, 7>>,
               <<27, 40, 48>>, <<27, 80, 113, 49, 156>>,
               <<27, 99, 65, 195, 169, 27, 92>>}
=============================================================================
