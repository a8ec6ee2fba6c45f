------------------------- MODULE MCSellerOnboarding -------------------------
EXTENDS SellerOnboarding, TLC

Ids == Permutations(Applications) \cup Permutations(Documents) \cup Permutations(Sellers)
         \cup Permutations(Requests) \cup Permutations(Contents)
=============================================================================
