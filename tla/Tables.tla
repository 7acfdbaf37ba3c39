------------------------------- MODULE Tables -------------------------------
(***************************************************************************)
(* The tables behind the group-based schemes: d5 and perm of verhoeff.c,   *)
(* which aadhaar.c repeats, damm10 and damm16 of damm.c, the first of      *)
(* which iposan.c repeats.  Indices start at 0, as in C.                   *)
(***************************************************************************)
EXTENDS Integers, Sequences

Row(t) == [c \in 0 .. Len(t) - 1 |-> t[c + 1]]

\* the dihedral group of the pentagon
D5 == Row(<<
    Row(<<0, 1, 2, 3, 4, 5, 6, 7, 8, 9>>),
    Row(<<1, 2, 3, 4, 0, 6, 7, 8, 9, 5>>),
    Row(<<2, 3, 4, 0, 1, 7, 8, 9, 5, 6>>),
    Row(<<3, 4, 0, 1, 2, 8, 9, 5, 6, 7>>),
    Row(<<4, 0, 1, 2, 3, 9, 5, 6, 7, 8>>),
    Row(<<5, 9, 8, 7, 6, 0, 4, 3, 2, 1>>),
    Row(<<6, 5, 9, 8, 7, 1, 0, 4, 3, 2>>),
    Row(<<7, 6, 5, 9, 8, 2, 1, 0, 4, 3>>),
    Row(<<8, 7, 6, 5, 9, 3, 2, 1, 0, 4>>),
    Row(<<9, 8, 7, 6, 5, 4, 3, 2, 1, 0>>)>>)

\* the powers of Verhoeff's permutation
Perm == Row(<<
    Row(<<0, 1, 2, 3, 4, 5, 6, 7, 8, 9>>),
    Row(<<1, 5, 7, 6, 2, 8, 3, 0, 9, 4>>),
    Row(<<5, 8, 0, 3, 7, 9, 6, 1, 4, 2>>),
    Row(<<8, 9, 1, 6, 0, 4, 3, 5, 2, 7>>),
    Row(<<9, 4, 5, 3, 1, 2, 6, 8, 7, 0>>),
    Row(<<4, 2, 8, 6, 5, 7, 3, 9, 0, 1>>),
    Row(<<2, 7, 9, 3, 8, 0, 6, 4, 1, 5>>),
    Row(<<7, 0, 4, 6, 9, 1, 3, 2, 5, 8>>)>>)

Damm10 == Row(<<
    Row(<<0, 3, 1, 7, 5, 9, 8, 6, 4, 2>>),
    Row(<<7, 0, 9, 2, 1, 5, 4, 8, 6, 3>>),
    Row(<<4, 2, 0, 6, 8, 7, 1, 3, 5, 9>>),
    Row(<<1, 7, 5, 0, 9, 8, 3, 4, 2, 6>>),
    Row(<<6, 1, 2, 3, 0, 4, 5, 9, 7, 8>>),
    Row(<<3, 6, 7, 4, 2, 0, 9, 5, 8, 1>>),
    Row(<<5, 8, 6, 9, 7, 2, 0, 1, 3, 4>>),
    Row(<<8, 9, 4, 5, 3, 6, 2, 0, 1, 7>>),
    Row(<<9, 4, 3, 8, 6, 1, 7, 2, 0, 5>>),
    Row(<<2, 5, 8, 1, 4, 3, 6, 7, 9, 0>>)>>)

Damm16 == Row(<<
    Row(<< 0,  2,  4,  6,  8, 10, 12, 14,  3,  1,  7,  5, 11,  9, 15, 13>>),
    Row(<< 2,  0,  6,  4, 10,  8, 14, 12,  1,  3,  5,  7,  9, 11, 13, 15>>),
    Row(<< 4,  6,  0,  2, 12, 14,  8, 10,  7,  5,  3,  1, 15, 13, 11,  9>>),
    Row(<< 6,  4,  2,  0, 14, 12, 10,  8,  5,  7,  1,  3, 13, 15,  9, 11>>),
    Row(<< 8, 10, 12, 14,  0,  2,  4,  6, 11,  9, 15, 13,  3,  1,  7,  5>>),
    Row(<<10,  8, 14, 12,  2,  0,  6,  4,  9, 11, 13, 15,  1,  3,  5,  7>>),
    Row(<<12, 14,  8, 10,  4,  6,  0,  2, 15, 13, 11,  9,  7,  5,  3,  1>>),
    Row(<<14, 12, 10,  8,  6,  4,  2,  0, 13, 15,  9, 11,  5,  7,  1,  3>>),
    Row(<< 3,  1,  7,  5, 11,  9, 15, 13,  0,  2,  4,  6,  8, 10, 12, 14>>),
    Row(<< 1,  3,  5,  7,  9, 11, 13, 15,  2,  0,  6,  4, 10,  8, 14, 12>>),
    Row(<< 7,  5,  3,  1, 15, 13, 11,  9,  4,  6,  0,  2, 12, 14,  8, 10>>),
    Row(<< 5,  7,  1,  3, 13, 15,  9, 11,  6,  4,  2,  0, 14, 12, 10,  8>>),
    Row(<<11,  9, 15, 13,  3,  1,  7,  5,  8, 10, 12, 14,  0,  2,  4,  6>>),
    Row(<< 9, 11, 13, 15,  1,  3,  5,  7, 10,  8, 14, 12,  2,  0,  6,  4>>),
    Row(<<15, 13, 11,  9,  7,  5,  3,  1, 12, 14,  8, 10,  4,  6,  0,  2>>),
    Row(<<13, 15,  9, 11,  5,  7,  1,  3, 14, 12, 10,  8,  6,  4,  2,  0>>)>>)
=============================================================================
