----------------------------- MODULE GaloisField -----------------------------
(***************************************************************************)
(* Arithmetic of the field with 2^field_power elements, and the matrices   *)
(* over it: the tables of Coding4Raid6 and of jerasure's galois.c, the     *)
(* coding matrix of reed_sol.c and the matrix inversion of jerasure.c.     *)
(* The program has field_power = 8; the model's is a parameter.            *)
(*                                                                         *)
(* A matrix is a function from row numbers to functions from column        *)
(* numbers to elements, all counted from 0.                                *)
(***************************************************************************)
EXTENDS Integers, FiniteSets, Bitwise, FiniteSetsExt, Functions

CONSTANT field_power

ASSUME FieldAssumption == field_power \in {2, 3, 4, 8}

nw == 2 ^ field_power
nwm1 == nw - 1
GF == 0 .. nwm1

prim_poly == CASE field_power = 2 -> 7
               [] field_power = 3 -> 11
               [] field_power = 4 -> 19
               [] field_power = 8 -> 285

(* b <<= 1, reduced by the primitive polynomial. *)
Shifted(b) == IF 2 * b >= nw THEN (2 * b) ^^ prim_poly ELSE 2 * b

(* gf_gen_tables(): successive powers of 2 and their logarithms. *)
gfilog[j \in 0 .. nwm1 - 1] == IF j = 0 THEN 1 ELSE Shifted(gfilog[j - 1])
gflog == [b \in 1 .. nwm1 |-> CHOOSE j \in 0 .. nwm1 - 1 : gfilog[j] = b]

gf_mul(a, b) ==
    IF a = 0 \/ b = 0 THEN 0 ELSE gfilog[(gflog[a] + gflog[b]) % nwm1]

gf_div(a, b) ==
    IF a = 0 THEN 0
    ELSE LET diff == gflog[a] - gflog[b]
         IN  gfilog[IF diff < 0 THEN diff + nwm1 ELSE diff]

-----------------------------------------------------------------------------
(* galois_create_log_tables(): the power table is stored three times, so   *)
(* that sums and differences of logarithms need no reduction.              *)
galois_ilog == [j \in -nwm1 .. 2 * nwm1 - 1 |-> gfilog[j % nwm1]]

(* galois_create_mult_tables(): products and quotients, -1 for x / 0. *)
galois_mult_tables ==
    [x \in GF |-> [y \in GF |->
        IF x = 0 \/ y = 0 THEN 0 ELSE galois_ilog[gflog[x] + gflog[y]]]]

galois_div_tables ==
    [x \in GF |-> [y \in GF |->
        IF y = 0 THEN -1
        ELSE IF x = 0 THEN 0 ELSE galois_ilog[gflog[x] - gflog[y]]]]

galois_single_multiply(x, y) == galois_mult_tables[x][y]
galois_single_divide(a, b) == galois_div_tables[a][b]

(* galois_shift_multiply(): the product without tables. *)
galois_shift_multiply(x, y) ==
    LET scratch[i \in 0 .. field_power - 1] ==
            IF i = 0 THEN y ELSE Shifted(scratch[i - 1])
        bits == {i \in DOMAIN scratch : (x \div 2 ^ i) % 2 = 1}
    IN  FoldFunctionOnSet(LAMBDA a, b : a ^^ b, 0, scratch, bits)

XorTable == [x \in GF |-> [y \in GF |-> x ^^ y]]
Plus(a, b) == XorTable[a][b]

(* The XOR of value[i] over the i of S. *)
PlusOver(S, value) == FoldFunctionOnSet(Plus, 0, value, S)

-----------------------------------------------------------------------------
(* reed_sol_extended_vandermonde_matrix(): row i holds the powers of i, but *)
(* for the first and the last row.                                         *)
Power(i, j) ==
    LET p[e \in 0 .. j] == IF e = 0 THEN 1 ELSE galois_single_multiply(p[e - 1], i)
    IN  p[j]

extended_vandermonde(rows, cols) ==
    [i \in 0 .. rows - 1 |-> [j \in 0 .. cols - 1 |->
        CASE i = 0 -> IF j = 0 THEN 1 ELSE 0
          [] i = rows - 1 -> IF j = cols - 1 THEN 1 ELSE 0
          [] OTHER -> Power(i, j)]]

Exchanged(mat, i, r) == [mat EXCEPT ![i] = mat[r], ![r] = mat[i]]

(* The first row from i on whose column i is not zero. *)
Pivot(mat, i) == Min({r \in DOMAIN mat : r >= i /\ mat[r][i] # 0})

(* One pass of the loop of reed_sol_big_vandermonde_distribution_matrix():  *)
(* column operations that make row i a row of the identity.                *)
ClearRow(mat, i) ==
    LET dist == Exchanged(mat, i, Pivot(mat, i))
        inv == galois_single_divide(1, dist[i][i])
        scaled(r) == [dist[r] EXCEPT ![i] = galois_single_multiply(inv, @)]
    IN  [r \in DOMAIN mat |-> [j \in DOMAIN mat[r] |->
            IF j = i THEN scaled(r)[i]
            ELSE Plus(dist[r][j],
                      galois_single_multiply(dist[i][j], scaled(r)[i]))]]

big_vandermonde(rows, cols) ==
    LET dist[i \in 0 .. cols - 1] ==
            IF i = 0 THEN extended_vandermonde(rows, cols)
            ELSE ClearRow(dist[i - 1], i)
    IN  dist[cols - 1]

(* Its last part: row cols is made all ones, then the first column of the  *)
(* rows below.  reed_sol_vandermonde_coding_matrix() keeps these m rows.   *)
coding_matrix(k, m) ==
    LET dist == big_vandermonde(k + m, k)
        ones(r, j) == galois_single_divide(dist[r][j], dist[k][j])
    IN  [i \in 0 .. m - 1 |-> [j \in 0 .. k - 1 |->
            galois_single_divide(ones(k + i, j), ones(k + i, 0))]]

-----------------------------------------------------------------------------
(* jerasure_invert_matrix().  First to upper triangular form: ... *)
RowPlus(a, c, b) == [j \in DOMAIN a |-> Plus(a[j], galois_single_multiply(c, b[j]))]
RowTimes(a, c) == [j \in DOMAIN a |-> galois_single_multiply(a[j], c)]

Eliminate(pair, i) ==
    LET r == Pivot(pair.mat, i)
        m1 == Exchanged(pair.mat, i, r)
        v1 == Exchanged(pair.inv, i, r)
        c == galois_single_divide(1, m1[i][i])
        below(M, j) == IF j > i THEN RowPlus(M[j], m1[j][i], RowTimes(M[i], c))
                       ELSE IF j = i THEN RowTimes(M[i], c) ELSE M[j]
    IN  [mat |-> [j \in DOMAIN m1 |-> below(m1, j)],
         inv |-> [j \in DOMAIN v1 |-> below(v1, j)]]

UpperTriangular(mat) ==
    LET k == Cardinality(DOMAIN mat)
        id == [i \in 0 .. k - 1 |-> [j \in 0 .. k - 1 |-> IF i = j THEN 1 ELSE 0]]
        step[i \in 0 .. k] ==
            IF i = 0 THEN [mat |-> mat, inv |-> id] ELSE Eliminate(step[i - 1], i - 1)
    IN  step[k]

(* ... then from the last row up. *)
jerasure_invert_matrix(mat) ==
    LET k == Cardinality(DOMAIN mat)
        up == UpperTriangular(mat)
        row[i \in 0 .. k - 1] ==
            LET add[j \in i .. k - 1] ==
                    IF j = i THEN up.inv[i] ELSE RowPlus(add[j - 1], up.mat[i][j], row[j])
            IN  add[k - 1]
    IN  [i \in 0 .. k - 1 |-> row[i]]

(* jerasure_make_decoding_matrix(): the first k units that are not erased, *)
(* and how the k data units follow from them.                              *)
dm_ids(k, m, erased) ==
    LET alive == (0 .. k + m - 1) \ erased
    IN  [i \in 0 .. k - 1 |->
            CHOOSE u \in alive : Cardinality({v \in alive : v < u}) = i]

jerasure_make_decoding_matrix(k, m, matrix, erased) ==
    LET ids == dm_ids(k, m, erased)
    IN  jerasure_invert_matrix(
            [i \in 0 .. k - 1 |->
                IF ids[i] < k
                THEN [j \in 0 .. k - 1 |-> IF j = ids[i] THEN 1 ELSE 0]
                ELSE matrix[ids[i] - k]])
=============================================================================
