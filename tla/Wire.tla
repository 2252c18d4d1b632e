-------------------------------- MODULE Wire --------------------------------
(***************************************************************************)
(* The messages between the frontend server and the services, as           *)
(* protos/demo.ts writes and reads them: one schema for each message and   *)
(* one table for each service, and the code every message shares.          *)
(*                                                                         *)
(* A JavaScript object is a function from the names of the fields it has   *)
(* to sequences: of at most one value for a field that is one value, of    *)
(* any number for a list.  The routes pass request bodies on without a     *)
(* look, so that an object may lack fields and hold numbers as text, and   *)
(* null for a string or a message; a list, a number or a bool that is null *)
(* fares as one that is not there.  Values are the ones the code tells     *)
(* apart.  On the wire a field is its number, wire type and value; the     *)
(* bytes are left out.                                                     *)
(***************************************************************************)
EXTENDS Naturals, Sequences

SeqsExt == INSTANCE SequencesExt

CONSTANTS Objects(_),    \* the objects of a schema that are sent
          Strange        \* fields of a newer peer, whose numbers no schema has

VARIABLES schema,   \* of the message on its way
          sent,     \* the object the caller passed
          wire,     \* the encoded fields
          read,     \* how many of them have been read
          got,      \* the message read so far
          stage

vars == <<schema, sent, wire, read, got, stage>>

One(num, type)  == [num |-> num, type |-> type, many |-> FALSE]
Many(num, type) == [num |-> num, type |-> type, many |-> TRUE]
LastNum == 9  \* the greatest number of a field
NoFields == [f \in {} |-> One(0, "")]
NullMessage == [null |-> <<>>]
-----------------------------------------------------------------------------
(* The messages.                                                           *)

CartItem == [productId |-> One(1, "string"), quantity |-> One(2, "int32")]
AddItemRequest == [userId |-> One(1, "string"), item |-> One(2, "CartItem")]
EmptyCartRequest == [userId |-> One(1, "string")]
GetCartRequest == [userId |-> One(1, "string")]
Cart == [userId |-> One(1, "string"), items |-> Many(2, "CartItem")]
Empty == NoFields
ListRecommendationsRequest == [userId |-> One(1, "string"), productIds |-> Many(2, "string")]
ListRecommendationsResponse == [productIds |-> Many(1, "string")]
Product ==
    [id |-> One(1, "string"), name |-> One(2, "string"), description |-> One(3, "string"),
     picture |-> One(4, "string"), priceUsd |-> One(5, "Money"),
     categories |-> Many(6, "string")]
ListProductsResponse == [products |-> Many(1, "Product")]
GetProductRequest == [id |-> One(1, "string")]
SearchProductsRequest == [query |-> One(1, "string")]
SearchProductsResponse == [results |-> Many(1, "Product")]
ProductReview ==
    [username |-> One(1, "string"), description |-> One(2, "string"),
     score |-> One(3, "string")]
GetProductReviewsRequest == [productId |-> One(1, "string")]
GetProductReviewsResponse == [productReviews |-> Many(1, "ProductReview")]
GetAverageProductReviewScoreRequest == [productId |-> One(1, "string")]
GetAverageProductReviewScoreResponse == [averageScore |-> One(1, "string")]
AskProductAIAssistantRequest == [productId |-> One(1, "string"), question |-> One(2, "string")]
AskProductAIAssistantResponse == [response |-> One(1, "string")]
GetQuoteRequest == [address |-> One(1, "Address"), items |-> Many(2, "CartItem")]
GetQuoteResponse == [costUsd |-> One(1, "Money")]
ShipOrderRequest == [address |-> One(1, "Address"), items |-> Many(2, "CartItem")]
ShipOrderResponse == [trackingId |-> One(1, "string")]
Address ==
    [streetAddress |-> One(1, "string"), city |-> One(2, "string"), state |-> One(3, "string"),
     country |-> One(4, "string"), zipCode |-> One(5, "string")]
Money ==
    [currencyCode |-> One(1, "string"), units |-> One(2, "int64"), nanos |-> One(3, "int32")]
GetSupportedCurrenciesResponse == [currencyCodes |-> Many(1, "string")]
CurrencyConversionRequest == [from |-> One(1, "Money"), toCode |-> One(2, "string")]
CreditCardInfo ==
    [creditCardNumber |-> One(1, "string"), creditCardCvv |-> One(2, "int32"),
     creditCardExpirationYear |-> One(3, "int32"),
     creditCardExpirationMonth |-> One(4, "int32")]
ChargeRequest == [amount |-> One(1, "Money"), creditCard |-> One(2, "CreditCardInfo")]
ChargeResponse == [transactionId |-> One(1, "string")]
RefundRequest ==
    [transactionId |-> One(1, "string"), amount |-> One(2, "Money"), email |-> One(3, "string")]
RefundResponse == [refundTransactionId |-> One(1, "string"), success |-> One(2, "bool")]
GetPaymentStatusRequest == [transactionId |-> One(1, "string")]
PaymentStatus ==
    [transactionId |-> One(1, "string"), status |-> One(2, "string"),
     amount |-> One(3, "Money")]
OrderItem == [item |-> One(1, "CartItem"), cost |-> One(2, "Money")]
OrderResult ==
    [orderId |-> One(1, "string"), shippingTrackingId |-> One(2, "string"),
     shippingCost |-> One(3, "Money"), shippingAddress |-> One(4, "Address"),
     items |-> Many(5, "OrderItem"), userId |-> One(6, "string"), email |-> One(7, "string"),
     transactionId |-> One(8, "string"), totalCost |-> One(9, "Money")]
SendOrderConfirmationRequest == [email |-> One(1, "string"), order |-> One(2, "OrderResult")]
PlaceOrderRequest ==
    [userId |-> One(1, "string"), userCurrency |-> One(2, "string"),
     address |-> One(3, "Address"), email |-> One(5, "string"),
     creditCard |-> One(6, "CreditCardInfo")]
PlaceOrderResponse == [order |-> One(1, "OrderResult")]
GetOrdersByEmailRequest == [email |-> One(1, "string")]
GetOrdersByEmailResponse == [orders |-> Many(1, "OrderDetail")]
GetOrderRequest == [orderId |-> One(1, "string")]
OrderDetail ==
    [orderId |-> One(1, "string"), email |-> One(2, "string"), status |-> One(3, "string"),
     totalCost |-> One(4, "Money"), shippingTrackingId |-> One(5, "string"),
     shippingAddress |-> One(6, "Address"), items |-> Many(7, "OrderItem"),
     createdAt |-> One(8, "string"), transactionId |-> One(9, "string")]
RefundOrderRequest == [orderId |-> One(1, "string"), email |-> One(2, "string")]
RefundOrderResponse ==
    [success |-> One(1, "bool"), status |-> One(2, "string"),
     refundTransactionId |-> One(3, "string")]
AdRequest == [contextKeys |-> Many(1, "string")]
AdResponse == [ads |-> Many(1, "Ad")]
Ad == [redirectUrl |-> One(1, "string"), text |-> One(2, "string")]
Flag ==
    [name |-> One(1, "string"), description |-> One(2, "string"), enabled |-> One(3, "bool")]
GetFlagRequest == [name |-> One(1, "string")]
GetFlagResponse == [flag |-> One(1, "Flag")]
CreateFlagRequest ==
    [name |-> One(1, "string"), description |-> One(2, "string"), enabled |-> One(3, "bool")]
CreateFlagResponse == [flag |-> One(1, "Flag")]
UpdateFlagRequest == [name |-> One(1, "string"), enabled |-> One(2, "bool")]
UpdateFlagResponse == NoFields
ListFlagsRequest == NoFields
ListFlagsResponse == [flag |-> Many(1, "Flag")]
DeleteFlagRequest == [name |-> One(1, "string")]
DeleteFlagResponse == NoFields

\* The messages a field may hold.
Schema ==
    [Ad |-> Ad, Address |-> Address, CartItem |-> CartItem, CreditCardInfo |-> CreditCardInfo,
     Flag |-> Flag, Money |-> Money, OrderDetail |-> OrderDetail, OrderItem |-> OrderItem,
     OrderResult |-> OrderResult, Product |-> Product, ProductReview |-> ProductReview]
-----------------------------------------------------------------------------
(* The services: the request and the response of each method.              *)

CartService ==
    [addItem |-> <<AddItemRequest, Empty>>, getCart |-> <<GetCartRequest, Cart>>,
     emptyCart |-> <<EmptyCartRequest, Empty>>]
RecommendationService ==
    [listRecommendations |-> <<ListRecommendationsRequest, ListRecommendationsResponse>>]
ProductCatalogService ==
    [listProducts |-> <<Empty, ListProductsResponse>>,
     getProduct |-> <<GetProductRequest, Product>>,
     searchProducts |-> <<SearchProductsRequest, SearchProductsResponse>>]
ProductReviewService ==
    [getProductReviews |-> <<GetProductReviewsRequest, GetProductReviewsResponse>>,
     getAverageProductReviewScore |-> <<GetAverageProductReviewScoreRequest, GetAverageProductReviewScoreResponse>>,
     askProductAiAssistant |-> <<AskProductAIAssistantRequest, AskProductAIAssistantResponse>>]
ShippingService ==
    [getQuote |-> <<GetQuoteRequest, GetQuoteResponse>>,
     shipOrder |-> <<ShipOrderRequest, ShipOrderResponse>>]
CurrencyService ==
    [getSupportedCurrencies |-> <<Empty, GetSupportedCurrenciesResponse>>,
     convert |-> <<CurrencyConversionRequest, Money>>]
PaymentService ==
    [charge |-> <<ChargeRequest, ChargeResponse>>, refund |-> <<RefundRequest, RefundResponse>>,
     getPaymentStatus |-> <<GetPaymentStatusRequest, PaymentStatus>>]
EmailService == [sendOrderConfirmation |-> <<SendOrderConfirmationRequest, Empty>>]
CheckoutService == [placeOrder |-> <<PlaceOrderRequest, PlaceOrderResponse>>]
OrderService ==
    [getOrdersByEmail |-> <<GetOrdersByEmailRequest, GetOrdersByEmailResponse>>,
     getOrder |-> <<GetOrderRequest, OrderDetail>>,
     refundOrder |-> <<RefundOrderRequest, RefundOrderResponse>>]
AdService == [getAds |-> <<AdRequest, AdResponse>>]
FeatureFlagService ==
    [getFlag |-> <<GetFlagRequest, GetFlagResponse>>,
     createFlag |-> <<CreateFlagRequest, CreateFlagResponse>>,
     updateFlag |-> <<UpdateFlagRequest, UpdateFlagResponse>>,
     listFlags |-> <<ListFlagsRequest, ListFlagsResponse>>,
     deleteFlag |-> <<DeleteFlagRequest, DeleteFlagResponse>>]

Services ==
    {CartService, RecommendationService, ProductCatalogService, ProductReviewService,
     ShippingService, CurrencyService, PaymentService, EmailService, CheckoutService,
     OrderService, AdService, FeatureFlagService}
-----------------------------------------------------------------------------
(* Writing.                                                                *)

IsNumber(type)  == type \in {"int32", "int64"}
IsMessage(type) == type \in DOMAIN Schema
WireType(type)  == IF type = "string" \/ IsMessage(type) THEN "bytes" ELSE "varint"

\* A string that is null ("(null)"); a number that does not fit 32 bits ("wide"),
\* 53 bits ("unsafe"), or is none ("fraction").
Values(type) == CASE type = "string" -> {"", "x", "(null)"}
                  [] type = "bool"   -> {"false", "true"}
                  [] type = "int32"  -> {"0", "1", "text 0", "text 1", "fraction", "wide"}
                  [] type = "int64"  -> {"0", "1", "unsafe", "fraction"}
Misfits == {"fraction", "wide"}
Zero(type)   == CASE type = "string" -> "" [] type = "bool" -> "false" [] OTHER -> "0"

\* BinaryWriter takes a number that is text, and writes null as text (external).
Converted(v) ==
    CASE v = "text 0" -> "0" [] v = "text 1" -> "1" [] v = "(null)" -> "null" [] OTHER -> v

\* Mutant: a list leaves out the values that are zero, as a single field does.
WrittenNotZero(fd, has, values) ==
    IF ~has THEN IF fd.many \/ IsMessage(fd.type) THEN <<>> ELSE <<Zero(fd.type)>>
    ELSE IF IsMessage(fd.type) THEN values
    ELSE SelectSeq(values, LAMBDA v : v # Zero(fd.type))

\* What is written of a field: no message that is undefined, no single value that is zero,
\* all of a list; a string or a bool that is undefined is not zero and is written as zero.
Written(fd, has, values) ==
    IF ~has THEN IF fd.many \/ IsMessage(fd.type) THEN <<>> ELSE <<Zero(fd.type)>>
    ELSE IF ~fd.many /\ ~IsMessage(fd.type) /\ values = <<Zero(fd.type)>> THEN <<>>
    ELSE values

ValuesOf(m, f) == IF f \in DOMAIN m THEN m[f] ELSE <<>>

RECURSIVE Throws(_, _), Encode(_, _)

\* encode throws on a list or a number that is undefined, on a value that does not fit, and
\* on a message that is null.
Throws(T, m) ==
    \/ m = NullMessage
    \/ \E f \in DOMAIN T :
        \/ f \notin DOMAIN m /\ (T[f].many \/ IsNumber(T[f].type))
        \/ \E k \in DOMAIN ValuesOf(m, f) :
              IF IsMessage(T[f].type) THEN Throws(Schema[T[f].type], m[f][k])
              ELSE m[f][k] \in Misfits

\* encode: the fields in the order of their numbers
Encode(T, m) ==
    LET fields(n) ==
            LET f      == CHOOSE f \in DOMAIN T : T[f].num = n
                values == IF \E g \in DOMAIN T : T[g].num = n
                          THEN Written(T[f], f \in DOMAIN m, ValuesOf(m, f)) ELSE <<>>
            IN [k \in DOMAIN values |->
                  [num |-> n, wtype |-> WireType(T[f].type),
                   value |-> IF IsMessage(T[f].type) THEN Encode(Schema[T[f].type], values[k])
                             ELSE Converted(values[k])]]
    IN SeqsExt!FlattenSeq([n \in 1 .. LastNum |-> fields(n)])
-----------------------------------------------------------------------------
(* Reading.                                                                *)

\* Mutant: a message starts without its lists.
BaseNoLists(T) ==
    [f \in {g \in DOMAIN T : ~T[g].many} |->
        IF IsMessage(T[f].type) THEN <<>> ELSE <<Zero(T[f].type)>>]

\* createBase: what a message holds before anything is read
Base(T) == [f \in DOMAIN T |-> IF T[f].many \/ IsMessage(T[f].type) THEN <<>> ELSE <<Zero(T[f].type)>>]

\* The field that a number and a wire type stand for; what has none is skipped.
FieldOf(T, x) == {f \in DOMAIN T : T[f].num = x.num /\ WireType(T[f].type) = x.wtype}

RECURSIVE Unreadable(_, _), Decode(_, _)

\* decode throws on an int64 that a number cannot hold (longToNumber).
Unreadable(T, x) ==
    \E f \in FieldOf(T, x) :
        IF IsMessage(T[f].type)
        THEN \E k \in DOMAIN x.value : Unreadable(Schema[T[f].type], x.value[k])
        ELSE x.value = "unsafe"

\* One turn of decode's loop: a list grows, a single field takes the last value.
ReadField(T, m, x) ==
    [f \in DOMAIN m |->
        IF f \notin FieldOf(T, x) THEN m[f]
        ELSE LET v == IF IsMessage(T[f].type) THEN Decode(Schema[T[f].type], x.value) ELSE x.value
             IN IF T[f].many THEN Append(m[f], v) ELSE <<v>>]

\* Mutant: a field it does not know ends the message.
DecodeKnown(T, w) ==
    LET known == {k \in 0 .. Len(w) : \A j \in 1 .. k : FieldOf(T, w[j]) # {}}
    IN SeqsExt!FoldLeft(LAMBDA m, x : ReadField(T, m, x), Base(T),
                        SubSeq(w, 1, CHOOSE k \in known : \A j \in known : j <= k))

\* decode
Decode(T, w) == SeqsExt!FoldLeft(LAMBDA m, x : ReadField(T, m, x), Base(T), w)
-----------------------------------------------------------------------------
(* JSON and partial objects.                                               *)

RECURSIVE ToJSON(_, _), Complete(_, _)

\* toJSON: what is zero, undefined or an empty list is left out; null stays.
ToJSON(T, m) ==
    LET kept == {f \in DOMAIN T \cap DOMAIN m :
                   /\ m[f] # <<>>
                   /\ T[f].many \/ IsMessage(T[f].type) \/ m[f] # <<Zero(T[f].type)>>}
    IN [f \in kept |-> [k \in DOMAIN m[f] |->
          IF IsMessage(T[f].type) THEN ToJSON(Schema[T[f].type], m[f][k])
          ELSE IF m[f][k] = "(null)" THEN m[f][k]
          ELSE Converted(m[f][k])]]

\* isSet
IsSet(T, o, f) ==
    /\ f \in DOMAIN o
    /\ ~T[f].many => o[f] # <<IF IsMessage(T[f].type) THEN NullMessage ELSE "(null)">>

\* fromJSON: what is not set is as createBase has it, and null in a list is text;
\* fromPartial too, of an object that has no null in a list.
Complete(T, o) ==
    [f \in DOMAIN T |->
        IF ~IsSet(T, o, f) THEN Base(T)[f]
        ELSE [k \in DOMAIN o[f] |->
                IF IsMessage(T[f].type) THEN Complete(Schema[T[f].type], o[f][k])
                ELSE Converted(o[f][k])]]
-----------------------------------------------------------------------------
(* A message on its way.                                                   *)

Init ==
    /\ \E s \in Services : \E m \in DOMAIN s : schema \in {s[m][1], s[m][2]}
    /\ sent \in Objects(schema)
    /\ wire = <<>> /\ read = 0
    /\ got = Base(schema)
    /\ stage = "passed"

\* requestSerialize, responseSerialize: gRPC fails the call if encode throws.
Serialize ==
    /\ stage = "passed"
    /\ IF Throws(schema, sent) THEN stage' = "refused" /\ UNCHANGED wire
       ELSE stage' = "encoded" /\ wire' = Encode(schema, sent)
    /\ UNCHANGED <<schema, sent, read, got>>

\* A peer with a newer or another copy of demo.proto writes a field of its own.
WriteStrange(x) ==
    /\ stage = "encoded" /\ read = 0 /\ FieldOf(schema, x) = {}
    /\ \A k \in DOMAIN wire : wire[k] \notin Strange
    /\ \E k \in 0 .. Len(wire) :
          wire' = SubSeq(wire, 1, k) \o <<x>> \o SubSeq(wire, k + 1, Len(wire))
    /\ UNCHANGED <<schema, sent, read, got, stage>>

\* requestDeserialize, responseDeserialize
DecodeField ==
    /\ stage = "encoded" /\ read < Len(wire)
    /\ LET x == wire[read + 1] IN
       IF Unreadable(schema, x) THEN stage' = "unreadable" /\ UNCHANGED <<read, got>>
       ELSE got' = ReadField(schema, got, x) /\ read' = read + 1 /\ UNCHANGED stage
    /\ UNCHANGED <<schema, sent, wire>>

Deliver ==
    /\ stage = "encoded" /\ read = Len(wire)
    /\ stage' = "delivered"
    /\ UNCHANGED <<schema, sent, wire, read, got>>

Next == Serialize \/ (\E x \in Strange : WriteStrange(x)) \/ DecodeField \/ Deliver

Spec == Init /\ [][Next]_vars
-----------------------------------------------------------------------------
RECURSIVE NullsAs(_, _, _)

\* The object with each string that is null, but those in lists, given as v.
NullsAs(v, T, m) ==
    [f \in DOMAIN m |-> [k \in DOMAIN m[f] |->
        IF IsMessage(T[f].type) THEN NullsAs(v, Schema[T[f].type], m[f][k])
        ELSE IF ~T[f].many /\ m[f][k] = "(null)" THEN v
        ELSE m[f][k]]]

AsJSON(m) == Complete(schema, ToJSON(schema, m))

\* A message arrives as its JSON reads: the two ways out of an object, and back, agree on
\* defaults, lists, sub-messages and numbers that are text.  A string that is null is all
\* they disagree on: it arrives as the text "null", and its JSON reads as the empty string.
WireAgreesWithJSON ==
    stage = "delivered" =>
        /\ got = AsJSON(NullsAs("null", schema, sent))
        /\ AsJSON(sent) = AsJSON(NullsAs("", schema, sent))

\* A service may pass on what it has read: a message that was delivered can be written,
\* and read again as it is, and is what fromPartial makes of it.
DeliveredCanBePassedOn ==
    stage = "delivered" =>
        /\ ~Throws(schema, got) /\ Decode(schema, Encode(schema, got)) = got
        /\ Complete(schema, got) = got

Without(T, f) == [g \in DOMAIN T \ {f} |-> T[g]]

\* A peer that was built before a field was added to the schema reads all the others as
\* they are: the services are deployed one by one, each with its own copy of demo.proto.
OlderCopyReadsTheRest ==
    stage = "delivered" =>
        \A f \in DOMAIN schema : Decode(Without(schema, f), wire) = Without(got, f)
=============================================================================
