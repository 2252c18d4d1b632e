----------------------------- MODULE MCCheckout -----------------------------
\* The instance of Checkout that TLC checks; the .cfg file gives the constants.
EXTENDS Checkout, TLC

CONSTANTS u1, u2, r1, r2, book, pen

\* Shoppers and orders are interchangeable, and so are items that can all be shipped.
CheckoutSymmetry == Permutations(Users) \cup Permutations(Requests) \cup Permutations(Items)
=============================================================================
